---- MODULE Spec2Model ----
(***************************************************************************)
(* The SVP (Sega Virtua Processor) subsystem of genesis-plus-rs:           *)
(* the DMA controller (svp/dma.rs), the RISC processor core                *)
(* (svp/processor.rs), the texture cache (svp/texture.rs) and the facade   *)
(* (svp/mod.rs, chips/mod.rs).                                             *)
(*                                                                         *)
(* Representation.  A memory (dram, texram, code_cache) is a function from *)
(* the indices that hold a non-zero value to that value; an index outside  *)
(* its domain holds 0.  A u8 / u16 is a natural number below 2^8 / 2^16.   *)
(* A u32 is the integer congruent to it modulo 2^32 (0 - 5 is held as -5); *)
(* the model's bounds keep every such value far from +-2^31.               *)
(***************************************************************************)
EXTENDS Integers, Sequences, FiniteSets, TLC

VARIABLES
    processor,      \* SVP.processor : SVPProcessor
    dma,            \* SVP.dma : SVPDmaController
    texture_unit,   \* SVP.texture_unit : TextureUnit (cache, binding, texram link)
    renderer,       \* SVP.renderer : the calls the renderer has received
    dram,           \* SVP.dram : [u16; 8192]
    texram,         \* SVP.texram : [u8; 131072]
    regs,           \* SVP.regs : [u16; 16]
    enabled,        \* SVP.enabled
    running,        \* SVP.running
    irq_pending,    \* SVP.irq_pending
    bus,            \* SVP.bus : whether connect_bus has attached the host bus
    manager,        \* ChipManager : the chips it holds and the active chip type
    last,           \* observation: the operation that produced this state
    run             \* observation: the DMA transfer in progress since start()

vars == <<processor, dma, texture_unit, renderer, dram, texram, regs,
          enabled, running, irq_pending, bus, manager, last, run>>

----------------------------------------------------------------------------
(* Sizes fixed by the program. *)

DramLen == 8192

TexramLen == 131072

(* Bounds of the model. *)

\* largest DMA length the inputs ask for
MaxLen == 4

\* transfer units a DMA address may advance past the address it was set to
MaxAdvance == 4

\* words the host writes into the command buffer between two resets
MaxCmds == 2

\* processor cycles between two starts of the processor
MaxCycles == 3

\* largest DMA length the host writes to register 3
MaxHostLen == 2

\* texture-cache accesses
MaxBinds == 2

\* cells of memory the host fills before it only reads
MaxCells == 2

----------------------------------------------------------------------------
(* Bit arithmetic on naturals. *)

Pow2(n) == 2 ^ n

\* x & (2^n - 1)
Mask(x, n) == x % Pow2(n)

\* (x >> n) & 1
Bit(x, n) == (x \div Pow2(n)) % 2

\* value as u8
Lo(w) == w % 256

\* (value >> 8) as u8
Hi(w) == (w \div 256) % 256

\* (high << 8) | low
Word(low, high) == high * 256 + low

(* Memories. *)

EmptyMem == [i \in {} |-> 0]

Rd(mem, i) == IF i \in DOMAIN mem THEN mem[i] ELSE 0

Wr(mem, i, v) ==
    IF v = 0
    THEN [j \in DOMAIN mem \ {i} |-> mem[j]]
    ELSE [j \in DOMAIN mem \cup {i} |-> IF j = i THEN v ELSE mem[j]]

\* the cells on which two memories differ
Diff(m1, m2) == {i \in DOMAIN m1 \cup DOMAIN m2 : Rd(m1, i) # Rd(m2, i)}

----------------------------------------------------------------------------
(* svp/dma.rs : SVPDmaController *)

DmaNew ==
    [src_addr |-> 0, dst_addr |-> 0, length |-> 0, active |-> FALSE,
     direction |-> "DramToTexRam"]

DmaReset(d) == DmaNew

SetSource(d, addr) == [d EXCEPT !.src_addr = Mask(addr, 24)]

SetDestination(d, addr) ==
    LET a == Mask(addr, 24) IN
    [d EXCEPT !.dst_addr = a,
              !.direction = IF a >= 16384 THEN "DramToTexRam" ELSE "TexRamToDram"]

SetLength(d, length) == [d EXCEPT !.length = Mask(length, 15)]

Start(d) == [d EXCEPT !.active = TRUE]

IsActive(d) == d.active

\* TransferCycle with a plausible slip: an out-of-range index returns early,
\* before the addresses and the length are stepped
TransferCycleStallsOutOfRange(d, dr, tx) ==
    IF ~d.active \/ d.length = 0
    THEN [dma |-> d, dram |-> dr, texram |-> tx, tex_written |-> {}]
    ELSE
      LET inrange ==
            IF d.direction = "DramToTexRam"
            THEN d.src_addr \div 2 < DramLen /\ d.dst_addr < TexramLen - 1
            ELSE d.src_addr < TexramLen - 1 /\ d.dst_addr \div 2 < DramLen
          len == d.length - 1
      IN IF ~inrange
         THEN [dma |-> d, dram |-> dr, texram |-> tx, tex_written |-> {}]
         ELSE [dma |-> [d EXCEPT !.src_addr = d.src_addr + 2,
                                 !.dst_addr = d.dst_addr + 2,
                                 !.length = len,
                                 !.active = IF len = 0 THEN FALSE ELSE d.active],
               dram |-> IF d.direction = "DramToTexRam" THEN dr
                        ELSE Wr(dr, d.dst_addr \div 2,
                                Word(Rd(tx, d.src_addr), Rd(tx, d.src_addr + 1))),
               texram |-> IF d.direction = "DramToTexRam"
                          THEN Wr(Wr(tx, d.dst_addr, Lo(Rd(dr, d.src_addr \div 2))),
                                  d.dst_addr + 1, Hi(Rd(dr, d.src_addr \div 2)))
                          ELSE tx,
               tex_written |-> IF d.direction = "DramToTexRam"
                               THEN {d.dst_addr, d.dst_addr + 1} ELSE {}]

\* TransferCycle with a plausible slip: the word is stored high byte first
TransferCycleBigEndian(d, dr, tx) ==
    IF ~d.active \/ d.length = 0
    THEN [dma |-> d, dram |-> dr, texram |-> tx, tex_written |-> {}]
    ELSE
      LET inrange ==
            IF d.direction = "DramToTexRam"
            THEN d.src_addr \div 2 < DramLen /\ d.dst_addr < TexramLen - 1
            ELSE d.src_addr < TexramLen - 1 /\ d.dst_addr \div 2 < DramLen
          len == d.length - 1
      IN [dma |-> [d EXCEPT !.src_addr = d.src_addr + 2,
                            !.dst_addr = d.dst_addr + 2,
                            !.length = len,
                            !.active = IF len = 0 THEN FALSE ELSE d.active],
          dram |-> IF inrange /\ d.direction # "DramToTexRam"
                   THEN Wr(dr, d.dst_addr \div 2,
                           Word(Rd(tx, d.src_addr + 1), Rd(tx, d.src_addr)))
                   ELSE dr,
          texram |-> IF inrange /\ d.direction = "DramToTexRam"
                     THEN Wr(Wr(tx, d.dst_addr, Hi(Rd(dr, d.src_addr \div 2))),
                             d.dst_addr + 1, Lo(Rd(dr, d.src_addr \div 2)))
                     ELSE tx,
          tex_written |-> IF inrange /\ d.direction = "DramToTexRam"
                          THEN {d.dst_addr, d.dst_addr + 1} ELSE {}]

\* TransferCycle with a plausible slip: only the destination address is stepped
TransferCycleSourceStays(d, dr, tx) ==
    IF ~d.active \/ d.length = 0
    THEN [dma |-> d, dram |-> dr, texram |-> tx, tex_written |-> {}]
    ELSE
      LET inrange ==
            IF d.direction = "DramToTexRam"
            THEN d.src_addr \div 2 < DramLen /\ d.dst_addr < TexramLen - 1
            ELSE d.src_addr < TexramLen - 1 /\ d.dst_addr \div 2 < DramLen
          len == d.length - 1
      IN [dma |-> [d EXCEPT !.dst_addr = d.dst_addr + 2,
                            !.length = len,
                            !.active = IF len = 0 THEN FALSE ELSE d.active],
          dram |-> IF inrange /\ d.direction # "DramToTexRam"
                   THEN Wr(dr, d.dst_addr \div 2,
                           Word(Rd(tx, d.src_addr), Rd(tx, d.src_addr + 1)))
                   ELSE dr,
          texram |-> IF inrange /\ d.direction = "DramToTexRam"
                     THEN Wr(Wr(tx, d.dst_addr, Lo(Rd(dr, d.src_addr \div 2))),
                             d.dst_addr + 1, Hi(Rd(dr, d.src_addr \div 2)))
                     ELSE tx,
          tex_written |-> IF inrange /\ d.direction = "DramToTexRam"
                          THEN {d.dst_addr, d.dst_addr + 1} ELSE {}]

\* one transfer_cycle: the controller and the two memories after the call,
\* and the texram indices the call stored to
TransferCycle(d, dr, tx) ==
    IF ~d.active \/ d.length = 0
    THEN [dma |-> d, dram |-> dr, texram |-> tx, tex_written |-> {}]
    ELSE
      LET moved ==
            IF d.direction = "DramToTexRam"
            THEN LET src_idx == d.src_addr \div 2
                     dst_idx == d.dst_addr
                 IN IF src_idx < DramLen /\ dst_idx < TexramLen - 1
                    THEN [dram |-> dr,
                          texram |-> Wr(Wr(tx, dst_idx, Lo(Rd(dr, src_idx))),
                                        dst_idx + 1, Hi(Rd(dr, src_idx))),
                          tex_written |-> {dst_idx, dst_idx + 1}]
                    ELSE [dram |-> dr, texram |-> tx, tex_written |-> {}]
            ELSE LET src_idx == d.src_addr
                     dst_idx == d.dst_addr \div 2
                 IN IF src_idx < TexramLen - 1 /\ dst_idx < DramLen
                    THEN [dram |-> Wr(dr, dst_idx,
                                      Word(Rd(tx, src_idx), Rd(tx, src_idx + 1))),
                          texram |-> tx, tex_written |-> {}]
                    ELSE [dram |-> dr, texram |-> tx, tex_written |-> {}]
          len == d.length - 1
      IN [dma |-> [d EXCEPT !.src_addr = d.src_addr + 2,
                            !.dst_addr = d.dst_addr + 2,
                            !.length = len,
                            !.active = IF len = 0 THEN FALSE ELSE d.active],
          dram |-> moved.dram,
          texram |-> moved.texram,
          tex_written |-> moved.tex_written]

----------------------------------------------------------------------------
(* svp/texture.rs : Texture, TextureCache, TextureUnit *)

\* Option<T> : None is the empty sequence, Some(x) the sequence <<x>>
None == << >>

Some(x) == <<x>>

TextureIds == 0 .. 15

\* Texture::size_bytes for the formats load_texture uses
SizeBytes(t) ==
    LET pixel_count == t.width * t.height IN
    CASE t.format = "Indexed4" -> pixel_count \div 2
      [] t.format = "Indexed8" -> pixel_count
      [] OTHER -> pixel_count * 2

\* Texture::new followed by Texture::load_from_texram, RGB555 branch:
\* pixel i is the little-endian word at base_addr + 2i
LoadFromTexram(t, tx) ==
    [t EXCEPT !.data =
        LET start == t.base_addr
            size == SizeBytes(t)
            px == {(j - start) \div 2 : j \in {k \in DOMAIN tx : k >= start /\ k < start + size}}
        IN [i \in px |-> Word(Rd(tx, start + 2 * i), Rd(tx, start + 2 * i + 1))]]

TextureNewTex(id, width, height, format, base_addr) ==
    [id |-> id, width |-> width, height |-> height, format |-> format,
     data |-> EmptyMem, base_addr |-> base_addr]

CacheNew ==
    [textures |-> [i \in TextureIds |-> None],
     lru_counter |-> 0,
     lru_timestamps |-> [i \in TextureIds |-> 0],
     hit_count |-> 0,
     miss_count |-> 0]

\* TextureCache::insert
CacheInsert(c, texture) ==
    IF texture.id < 16
    THEN [c EXCEPT !.textures[texture.id] = Some(texture),
                   !.lru_timestamps[texture.id] = c.lru_counter,
                   !.lru_counter = c.lru_counter + 1]
    ELSE c

\* TextureCache::get : the cache after the lookup (a hit refreshes the timestamp)
CacheGet(c, id) ==
    IF id < 16
    THEN IF c.textures[id] # None
         THEN [c EXCEPT !.hit_count = c.hit_count + 1,
                        !.lru_timestamps[id] = c.lru_counter,
                        !.lru_counter = c.lru_counter + 1]
         ELSE [c EXCEPT !.miss_count = c.miss_count + 1]
    ELSE c

CacheHas(c, id) == id < 16 /\ c.textures[id] # None

\* TextureCache::remove
CacheRemove(c, id) ==
    IF id < 16 THEN [c EXCEPT !.textures[id] = None] ELSE c

TextureUnitNew ==
    [cache |-> CacheNew, texram |-> FALSE, current_texture |-> None]

\* TextureUnit::reset
TextureUnitReset(tu) == TextureUnitNew

\* TextureUnit::connect_texram
ConnectTexram(tu) == [tu EXCEPT !.texram = TRUE]

\* TextureUnit::load_texture : 64x64 RGB555 at texture_id * 0x2000
LoadTexture(tu, texture_id, tx) ==
    IF tu.texram
    THEN LET texture == TextureNewTex(texture_id, 64, 64, "RGB555", texture_id * 8192)
         IN IF texture.base_addr + SizeBytes(texture) <= TexramLen
            THEN [tu EXCEPT !.cache = CacheInsert(tu.cache, LoadFromTexram(texture, tx))]
            ELSE tu
    ELSE tu

\* TextureUnit::bind_texture
BindTexture(tu, texture_id, tx) ==
    IF texture_id < 16
    THEN LET bound == [tu EXCEPT !.current_texture = Some(texture_id)]
             looked == [bound EXCEPT !.cache = CacheGet(bound.cache, texture_id)]
         IN IF CacheHas(bound.cache, texture_id)
            THEN looked
            ELSE LoadTexture(looked, texture_id, tx)
    ELSE tu

----------------------------------------------------------------------------
(* svp/processor.rs : SVPProcessor.  pipeline is 1-based here: pipeline[1] *)
(* is the source's pipeline[0].                                            *)

CmdBufLen == 128

CodeCacheLen == 2048

RegIds == 0 .. 15

\* The fields of SVPProcessor, and three observations of the render
\* handshake: serial counts the render triggers since reset (each command
\* carries the serial of its trigger), dropped holds the serials of commands
\* overwritten while ready, delivered the serials get_render_command returned;
\* icount counts the instructions executed since the observer cleared it.
ProcessorNew ==
    [regs |-> [r \in RegIds |-> 0],
     pc |-> 0,
     sr |-> 0,
     code_cache |-> EmptyMem,
     pipeline |-> <<0, 0, 0>>,
     cmd_buffer |-> [i \in 0 .. CmdBufLen - 1 |-> 0],
     cmd_read_ptr |-> 0,
     cmd_write_ptr |-> 0,
     running |-> FALSE,
     halted |-> FALSE,
     irq_enabled |-> TRUE,
     irq_asserted |-> FALSE,
     texture_unit |-> TextureUnitNew,
     current_cmd |-> None,
     cmd_ready |-> FALSE,
     serial |-> 0,
     dropped |-> {},
     delivered |-> << >>,
     icount |-> 0]

ProcessorReset(p) == ProcessorNew

\* load_code_cache
LoadCodeCache(p) ==
    [p EXCEPT !.code_cache = Wr(Wr(p.code_cache, 0, 4096), 1, 4352)]

ProcessorStart(p) ==
    LoadCodeCache([p EXCEPT !.running = TRUE, !.halted = FALSE, !.pc = 0])

ProcessorStop(p) == [p EXCEPT !.running = FALSE, !.halted = TRUE]

\* FetchIndex with a plausible slip: the mask 0x7FF is left out
FetchIndexUnmasked(p) == p.pc \div 2

\* fetch_instruction's index into code_cache : (pc >> 1) & 0x7FF
FetchIndex(p) == (p.pc \div 2) % CodeCacheLen

FetchInstruction(p) == Rd(p.code_cache, FetchIndex(p))

DecodeInstruction(p, instr) == instr

UpdateStatusFlags(p, result) ==
    [p EXCEPT !.sr = (p.sr \div 256) * 256
                     + (IF result = 0 THEN 1 ELSE 0)
                     + (IF result < 0 THEN 2 ELSE 0)]

CmdTypeOf(n) ==
    CASE n = 0 -> "DrawPolygon"
      [] n = 1 -> "DrawLine"
      [] n = 2 -> "ClearFrame"
      [] OTHER -> "Unknown"

\* process_render_command
ProcessRenderCommand(p, instr) ==
    [p EXCEPT !.current_cmd = Some(
                 [cmd_type |-> CmdTypeOf((instr \div 256) % 16),
                  vertices |-> <<<<0, 0>>, <<0, 0>>, <<0, 0>>, <<0, 0>>>>,
                  texture_id |-> (instr \div 16) % 16,
                  color |-> instr % 16,
                  z_depth |-> 0,
                  serial |-> p.serial]),
              !.cmd_ready = TRUE,
              !.serial = p.serial + 1,
              !.dropped = IF p.cmd_ready /\ p.current_cmd # None
                          THEN p.dropped \cup {p.current_cmd[1].serial}
                          ELSE p.dropped]

\* execute_instruction's fields of the instruction word
OpcodeOf(instr) == (instr \div 4096) % 16

RdOf(instr) == (instr \div 256) % 16

RsOf(instr) == (instr \div 16) % 16

ImmOf(instr) == instr % 256

\* ExecuteInstruction with a plausible slip: opcode 0xC is taken for a
\* second render trigger
ExecuteInstructionExtraRender(p, instr) ==
    LET opcode == OpcodeOf(instr)
        rd == RdOf(instr)
        rs == RsOf(instr)
        imm == ImmOf(instr)
    IN CASE opcode = 0 -> [p EXCEPT !.regs[rd] = p.regs[rs]]
         [] opcode = 1 -> [p EXCEPT !.regs[rd] = p.regs[rs] + imm]
         [] opcode = 2 -> [p EXCEPT !.regs[rd] = p.regs[rs] - imm]
         [] opcode = 3 -> UpdateStatusFlags(p, p.regs[rs] - imm)
         [] opcode = 8 -> [p EXCEPT !.pc = p.regs[rs] % 16777216]
         [] opcode = 9 -> [p EXCEPT !.regs[15] = p.pc,
                                    !.pc = p.regs[rs] % 16777216]
         [] opcode = 10 -> [p EXCEPT !.pc = p.regs[15]]
         [] opcode = 11 \/ opcode = 12 -> ProcessRenderCommand(p, instr)
         [] OTHER -> p

\* ExecuteInstruction with a plausible slip: CALL saves the address of the
\* instruction after it, as if the cycle did not advance the counter itself
ExecuteInstructionCallSavesNext(p, instr) ==
    LET opcode == OpcodeOf(instr)
        rd == RdOf(instr)
        rs == RsOf(instr)
        imm == ImmOf(instr)
    IN CASE opcode = 0 -> [p EXCEPT !.regs[rd] = p.regs[rs]]
         [] opcode = 1 -> [p EXCEPT !.regs[rd] = p.regs[rs] + imm]
         [] opcode = 2 -> [p EXCEPT !.regs[rd] = p.regs[rs] - imm]
         [] opcode = 3 -> UpdateStatusFlags(p, p.regs[rs] - imm)
         [] opcode = 8 -> [p EXCEPT !.pc = p.regs[rs] % 16777216]
         [] opcode = 9 -> [p EXCEPT !.regs[15] = p.pc + 2,
                                    !.pc = p.regs[rs] % 16777216]
         [] opcode = 10 -> [p EXCEPT !.pc = p.regs[15]]
         [] opcode = 11 -> ProcessRenderCommand(p, instr)
         [] OTHER -> p

ExecuteInstruction(p, instr) ==
    LET opcode == OpcodeOf(instr)
        rd == RdOf(instr)
        rs == RsOf(instr)
        imm == ImmOf(instr)
    IN CASE opcode = 0 -> [p EXCEPT !.regs[rd] = p.regs[rs]]
         [] opcode = 1 -> [p EXCEPT !.regs[rd] = p.regs[rs] + imm]
         [] opcode = 2 -> [p EXCEPT !.regs[rd] = p.regs[rs] - imm]
         [] opcode = 3 -> UpdateStatusFlags(p, p.regs[rs] - imm)
         [] opcode = 8 -> [p EXCEPT !.pc = p.regs[rs] % 16777216]
         [] opcode = 9 -> [p EXCEPT !.regs[15] = p.pc,
                                    !.pc = p.regs[rs] % 16777216]
         [] opcode = 10 -> [p EXCEPT !.pc = p.regs[15]]
         [] opcode = 11 -> ProcessRenderCommand(p, instr)
         [] OTHER -> p

WriteCommandBuffer(p, value) ==
    [p EXCEPT !.cmd_buffer[p.cmd_write_ptr] = value,
              !.cmd_write_ptr = (p.cmd_write_ptr + 1) % CmdBufLen]

\* ProcessCommandBuffer with a plausible slip: every entry is a render
\* trigger, whatever its bit 15
ProcessCommandBufferAnyEntry(p) ==
    IF p.cmd_read_ptr # p.cmd_write_ptr
    THEN LET cmd == p.cmd_buffer[p.cmd_read_ptr]
             q == [p EXCEPT !.cmd_read_ptr = (p.cmd_read_ptr + 1) % CmdBufLen]
         IN ProcessRenderCommand(q, cmd)
    ELSE p

\* ProcessCommandBuffer with a plausible slip: the read pointer is not
\* advanced past the entry taken
ProcessCommandBufferRereads(p) ==
    IF p.cmd_read_ptr # p.cmd_write_ptr
    THEN LET cmd == p.cmd_buffer[p.cmd_read_ptr]
         IN IF Bit(cmd, 15) = 1 THEN ProcessRenderCommand(p, cmd) ELSE p
    ELSE p

ProcessCommandBuffer(p) ==
    IF p.cmd_read_ptr # p.cmd_write_ptr
    THEN LET cmd == p.cmd_buffer[p.cmd_read_ptr]
             q == [p EXCEPT !.cmd_read_ptr = (p.cmd_read_ptr + 1) % CmdBufLen]
         IN IF Bit(cmd, 15) = 1 THEN ProcessRenderCommand(q, cmd) ELSE q
    ELSE p

ExecuteCycle(p) ==
    IF ~p.running \/ p.halted
    THEN p
    ELSE LET fetched == [p EXCEPT !.pipeline[1] = FetchInstruction(p)]
             decoded == [fetched EXCEPT !.pipeline[2] =
                            DecodeInstruction(fetched, fetched.pipeline[1])]
             executed == ExecuteInstruction(decoded, decoded.pipeline[2])
             advanced == [executed EXCEPT !.pc = executed.pc + 2,
                                          !.icount = executed.icount + 1]
         IN ProcessCommandBuffer(advanced)

RenderCommandReady(p) == p.cmd_ready

\* GetRenderCommand with a plausible slip: the command is cloned, not taken,
\* and the ready flag is left to command_completed
GetRenderCommandKeeps(p) ==
    IF p.cmd_ready
    THEN [p EXCEPT !.delivered = IF p.current_cmd # None
                                 THEN Append(p.delivered, p.current_cmd[1].serial)
                                 ELSE p.delivered]
    ELSE p

\* get_render_command : the processor after the call (the command returned,
\* if any, is the one whose serial was appended to delivered)
GetRenderCommand(p) ==
    IF p.cmd_ready
    THEN [p EXCEPT !.cmd_ready = FALSE,
                   !.current_cmd = None,
                   !.delivered = IF p.current_cmd # None
                                 THEN Append(p.delivered, p.current_cmd[1].serial)
                                 ELSE p.delivered]
    ELSE p

\* what get_render_command returns
TakenCommand(p) == IF p.cmd_ready THEN p.current_cmd ELSE None

\* CommandCompleted with a plausible slip: completion raises the interrupt
CommandCompletedAssertsIrq(p) == [p EXCEPT !.cmd_ready = FALSE, !.irq_asserted = TRUE]

CommandCompleted(p) == [p EXCEPT !.cmd_ready = FALSE]

IrqAsserted(p) == p.irq_asserted

ClearIrq(p) == [p EXCEPT !.irq_asserted = FALSE]

----------------------------------------------------------------------------
(* f32 arithmetic.  A finite f32 is held as the integer sign * (bits &      *)
(* 0x7FFFFFFF) of its IEEE-754 encoding, so that the order of the integers  *)
(* is the order of the floats and both zeros are 0.  Every operation rounds *)
(* to nearest, ties to even, as the hardware does.                          *)

Abs(a) == IF a >= 0 THEN a ELSE -a

Min2(a, b) == IF a < b THEN a ELSE b

Max2(a, b) == IF a > b THEN a ELSE b

\* the number of bits of n
RECURSIVE BitLenBelow(_, _)
BitLenBelow(n, k) == IF k = 0 \/ n >= Pow2(k - 1) THEN k ELSE BitLenBelow(n, k - 1)

BitLen(n) == IF n >= 1073741824 THEN 31 ELSE BitLenBelow(n, 30)

\* the mantissa with its hidden bit, and the exponent of its last bit + 150
FMant(f) == IF Abs(f) < 8388608 THEN Abs(f) ELSE 8388608 + (Abs(f) % 8388608)

FExp(f) == IF Abs(f) < 8388608 THEN 1 ELSE Abs(f) \div 8388608

FSign(f) == IF f < 0 THEN -1 ELSE 1

\* m >> d with the bits shifted out or-ed into the last bit
ShiftRightJam(m, d) ==
    IF d = 0 THEN m
    ELSE IF d > 27 THEN (IF m # 0 THEN 1 ELSE 0)
    ELSE IF m % Pow2(d) # 0
         THEN (m \div Pow2(d + 1)) * 2 + 1
         ELSE m \div Pow2(d)

\* the encoding of sign * q * 2^(e - 150) for q <= 2^24, e >= 1
FPack(sign, q, e) ==
    IF q < 8388608 THEN sign * q
    ELSE IF q = 16777216
         THEN (IF e + 1 >= 255 THEN sign * 2139095040 ELSE sign * ((e + 1) * 8388608))
         ELSE (IF e >= 255 THEN sign * 2139095040
               ELSE sign * (e * 8388608 + q - 8388608))

\* sign * m * 2^(e - 150) rounded to an f32; the last bit of m stands for
\* everything below it
FRound(sign, m, e, s) ==
    IF s <= 0 THEN FPack(sign, m * Pow2(-s), e + s)
    ELSE IF s > 30 THEN 0
    ELSE FPack(sign,
               (m \div Pow2(s))
               + (IF m % Pow2(s) > Pow2(s - 1)
                     \/ (m % Pow2(s) = Pow2(s - 1) /\ (m \div Pow2(s)) % 2 = 1)
                  THEN 1 ELSE 0),
               e + s)

FRoundPack(sign, m, e) ==
    IF m = 0 THEN 0 ELSE FRound(sign, m, e, Max2(BitLen(m) - 24, 1 - e))

\* a + b on aligned mantissas with three guard bits, ea >= eb
FAddAligned(sa, ma, ea, sb, mb, eb) ==
    FRoundPack(IF sa * ma * 8 + sb * ShiftRightJam(mb * 8, ea - eb) < 0 THEN -1 ELSE 1,
               Abs(sa * ma * 8 + sb * ShiftRightJam(mb * 8, ea - eb)), ea - 3)

FAddValues(a, b) ==
    IF FExp(a) >= FExp(b)
    THEN FAddAligned(FSign(a), FMant(a), FExp(a), FSign(b), FMant(b), FExp(b))
    ELSE FAddAligned(FSign(b), FMant(b), FExp(b), FSign(a), FMant(a), FExp(a))

\* a + b : the operands are evaluated first, then added
FAdd(a, b) == CHOOSE sum \in {FAddValues(x, y) : x \in {a}, y \in {b}} : TRUE

FSub(a, b) == FAdd(a, -b)

\* the 48-bit product of two 24-bit mantissas, as its upper bits with the
\* lower ones or-ed into the last bit
MulJam(ah, al, bh, bl) ==
    LET mid == ah * bl + al * bh
        low == (mid % 4096) * 4096 + al * bl
        high == ah * bh + mid \div 4096 + low \div 16777216
    IN (high * 4 + (low % 16777216) \div 4194304) * 2
       + (IF low % 4194304 # 0 THEN 1 ELSE 0)

\* a * b for mantissas brought to 24 bits
FMulNorm(sign, ma, ea, mb, eb) ==
    FRoundPack(sign, MulJam(ma \div 4096, ma % 4096, mb \div 4096, mb % 4096),
               ea + eb - 129)

FMulValues(a, b) ==
    IF a = 0 \/ b = 0
    THEN 0
    ELSE FMulNorm(FSign(a) * FSign(b),
                  FMant(a) * Pow2(24 - BitLen(FMant(a))),
                  FExp(a) - (24 - BitLen(FMant(a))),
                  FMant(b) * Pow2(24 - BitLen(FMant(b))),
                  FExp(b) - (24 - BitLen(FMant(b))))

\* a * b : the operands are evaluated first, then multiplied
FMul(a, b) == CHOOSE product \in {FMulValues(x, y) : x \in {a}, y \in {b}} : TRUE

\* long division by d, k more bits at a time: qr is the quotient so far and
\* the remainder
DivChunk(qr, d, k) ==
    [q |-> qr.q * Pow2(k) + (qr.r * Pow2(k)) \div d, r |-> (qr.r * Pow2(k)) % d]

\* the quotient of ma * 2^26 by mb for mantissas of 24 bits, with a last bit
\* that tells whether anything remains
DivJam(qr) == qr.q * 2 + (IF qr.r # 0 THEN 1 ELSE 0)

DivBits(ma, mb) ==
    DivJam(DivChunk(DivChunk(DivChunk(DivChunk([q |-> ma \div mb, r |-> ma % mb],
                                               mb, 7), mb, 7), mb, 7), mb, 5))

FDivNorm(sign, ma, ea, mb, eb) ==
    FRoundPack(sign, DivBits(ma, mb), ea - eb + 123)

\* a / b for b # 0
FDivValues(a, b) ==
    IF a = 0
    THEN 0
    ELSE FDivNorm(FSign(a) * FSign(b),
                  FMant(a) * Pow2(24 - BitLen(FMant(a))),
                  FExp(a) - (24 - BitLen(FMant(a))),
                  FMant(b) * Pow2(24 - BitLen(FMant(b))),
                  FExp(b) - (24 - BitLen(FMant(b))))

\* a / b : the operands are evaluated first, then divided
FDiv(a, b) == CHOOSE quotient \in {FDivValues(x, y) : x \in {a}, y \in {b}} : TRUE

\* n as f32
FromInt(n) == FRoundPack(IF n < 0 THEN -1 ELSE 1, Abs(n), 150)

\* f as i32 : truncated toward zero, saturating
ToIntValue(f) ==
    IF FExp(f) >= 158 THEN FSign(f) * 2147483647
    ELSE IF FExp(f) >= 150 THEN FSign(f) * FMant(f) * Pow2(FExp(f) - 150)
    ELSE IF FExp(f) < 126 THEN 0
    ELSE FSign(f) * (FMant(f) \div Pow2(150 - FExp(f)))

ToInt(f) == CHOOSE n \in {ToIntValue(x) : x \in {f}} : TRUE

\* f.clamp(lo, hi)
FClamp(f, lo, hi) == Max2(lo, Min2(f, hi))

----------------------------------------------------------------------------
(* svp/renderer.rs : ZBuffer, FrameBuffer, Camera and SVPRenderer.  Depths  *)
(* and coordinates are f32 values in the encoding above.  A colour buffer   *)
(* is the memory of its non-black pixels, indexed by y * width + x.         *)

FbWidth == 320

FbHeight == 224

\* 0.0001, 0.1, 0.5, 1.0, 2.0, 60.0, 180.0, 1000.0 and PI as f32
FTenThousandth == 953267991

FTenth == 1036831949

FHalf == 1056964608

FOne == 1065353216

FTwo == 1073741824

FSixty == 1114636288

FOneEighty == 1127481344

FThousand == 1148846080

FPi == 1078530011

\* ZBuffer::new : every entry 1.0; data is the fill value and the entries
\* written since the last clear
ZBufferNew ==
    [width |-> FbWidth, height |-> FbHeight,
     data |-> [fill |-> FOne, cells |-> EmptyMem],
     enabled |-> TRUE, write_enabled |-> TRUE, test_enabled |-> TRUE]

\* self.data[idx]
ZData(z, idx) == IF idx \in DOMAIN z.data.cells THEN z.data.cells[idx] ELSE z.data.fill

\* ZBuffer::clear
ZBufferClear(z, value) == [z EXCEPT !.data = [fill |-> value, cells |-> EmptyMem]]

\* ZBuffer::get_depth
GetDepth(z, x, y) ==
    IF y * z.width + x < z.width * z.height THEN ZData(z, y * z.width + x) ELSE FOne

\* ZBuffer::test_and_write with a plausible slip: a write at the stored depth
\* passes too
TestPassesOrEqual(z, x, y, depth) ==
    IF ~z.enabled \/ ~z.test_enabled
    THEN TRUE
    ELSE /\ y * z.width + x < z.width * z.height
         /\ depth <= ZData(z, y * z.width + x)

\* ZBuffer::test_and_write : the value returned
TestPasses(z, x, y, depth) ==
    IF ~z.enabled \/ ~z.test_enabled
    THEN TRUE
    ELSE /\ y * z.width + x < z.width * z.height
         /\ depth < ZData(z, y * z.width + x)

\* TestAndWrite with a plausible slip: the depth is stored whether or not
\* the test passed
TestAndWriteStoresAlways(z, x, y, depth) ==
    IF ~z.enabled \/ ~z.test_enabled
    THEN z
    ELSE IF y * z.width + x < z.width * z.height /\ z.write_enabled
         THEN [z EXCEPT !.data.cells =
                  [i \in DOMAIN z.data.cells \cup {y * z.width + x} |->
                      IF i = y * z.width + x THEN depth ELSE z.data.cells[i]]]
         ELSE z

\* ZBuffer::test_and_write : the Z-buffer afterwards
TestAndWrite(z, x, y, depth) ==
    IF ~z.enabled \/ ~z.test_enabled
    THEN z
    ELSE IF TestPasses(z, x, y, depth) /\ z.write_enabled
         THEN [z EXCEPT !.data.cells =
                  [i \in DOMAIN z.data.cells \cup {y * z.width + x} |->
                      IF i = y * z.width + x THEN depth ELSE z.data.cells[i]]]
         ELSE z

\* FrameBuffer::new(width, height, double_buffered), buffers 1-based: the
\* source's buffers[0] is buffers[1] here
FrameBufferNew(double_buffered) ==
    [width |-> FbWidth, height |-> FbHeight, data |-> EmptyMem, clear_color |-> 0,
     double_buffered |-> double_buffered, front_buffer |-> 1, back_buffer |-> 2,
     buffers |-> <<EmptyMem, EmptyMem>>]

\* FrameBuffer::clear
FrameBufferClear(f) ==
    IF f.double_buffered
    THEN [f EXCEPT !.buffers[f.back_buffer] = EmptyMem]
    ELSE [f EXCEPT !.data = EmptyMem]

\* FrameBuffer::draw_pixel with a plausible slip: the pixel goes to the
\* buffer on display
DrawPixelFront(f, x, y, color) ==
    IF x < f.width /\ y < f.height
    THEN IF f.double_buffered
         THEN [f EXCEPT !.buffers[f.front_buffer] =
                  Wr(f.buffers[f.front_buffer], y * f.width + x, color)]
         ELSE [f EXCEPT !.data = Wr(f.data, y * f.width + x, color)]
    ELSE f

\* FrameBuffer::draw_pixel
DrawPixel(f, x, y, color) ==
    IF x < f.width /\ y < f.height
    THEN IF f.double_buffered
         THEN [f EXCEPT !.buffers[f.back_buffer] =
                  Wr(f.buffers[f.back_buffer], y * f.width + x, color)]
         ELSE [f EXCEPT !.data = Wr(f.data, y * f.width + x, color)]
    ELSE f

\* FrameBuffer::get_pixel
FbGetPixel(f, x, y) ==
    IF x < f.width /\ y < f.height
    THEN IF f.double_buffered
         THEN Rd(f.buffers[f.front_buffer], y * f.width + x)
         ELSE Rd(f.data, y * f.width + x)
    ELSE 0

\* FrameBuffer::swap_buffers with a plausible slip: the back buffer is
\* copied to the front and the indices stay
FbSwapBuffersCopies(f) ==
    IF f.double_buffered
    THEN [f EXCEPT !.buffers[f.front_buffer] = f.buffers[f.back_buffer],
                   !.data = f.buffers[f.back_buffer]]
    ELSE f

\* FrameBuffer::swap_buffers
FbSwapBuffers(f) ==
    IF f.double_buffered
    THEN [f EXCEPT !.front_buffer = f.back_buffer,
                   !.back_buffer = f.front_buffer,
                   !.data = f.buffers[f.back_buffer]]
    ELSE f

\* FrameBuffer::get_buffer
GetBuffer(f) == IF f.double_buffered THEN f.buffers[f.front_buffer] ELSE f.data

\* FrameBuffer::get_back_buffer
GetBackBuffer(f) == IF f.double_buffered THEN f.buffers[f.back_buffer] ELSE f.data

\* Vertex: position and w as f32; every vertex of the model has u = v = 0
Vertex(x, y, z, w) == [x |-> x, y |-> y, z |-> z, w |-> w]

\* (fov_rad / 2.0).tan() for fov = 60.0 : 0.57735026
TanHalfFov == 1058262330

\* Camera::new(fov, aspect_ratio) : position and rotation are zero, so the
\* view matrix is the identity; p00, p11, p22, p32 and p23 are the entries
\* [0][0], [1][1], [2][2], [3][2] and [2][3] of the projection matrix, the
\* others are zero
CameraNew(fov, aspect_ratio) ==
    [p00 |-> FDiv(FDiv(FOne, TanHalfFov), aspect_ratio),
     p11 |-> FDiv(FOne, TanHalfFov),
     p22 |-> FMul(FAdd(FTenth, FThousand), FDiv(FOne, FSub(FTenth, FThousand))),
     p32 |-> FMul(FMul(FMul(FTenth, FThousand), FDiv(FOne, FSub(FTenth, FThousand))),
                  FTwo),
     p23 |-> -FOne]

\* the perspective division of transform_vertex
PerspectiveDivide(vertex, proj_x, proj_y, proj_z, proj_w) ==
    IF proj_w # 0
    THEN [x |-> FDiv(proj_x, proj_w), y |-> FDiv(proj_y, proj_w),
          z |-> FDiv(proj_z, proj_w), w |-> proj_w]
    ELSE vertex

\* Camera::transform_vertex : with the identity view matrix the view
\* coordinates are the vertex's own, and the zero entries of the projection
\* matrix add nothing
TransformVertex(c, vertex) ==
    PerspectiveDivide(vertex, FMul(c.p00, vertex.x), FMul(c.p11, vertex.y),
                      FAdd(FMul(c.p22, vertex.z), FMul(c.p32, vertex.w)),
                      FMul(c.p23, vertex.z))

\* SVPRenderer::new
RendererNew ==
    [framebuffer |-> FrameBufferNew(TRUE), zbuffer |-> ZBufferNew,
     camera |-> CameraNew(FSixty, FDiv(FromInt(FbWidth), FromInt(FbHeight))),
     viewport |-> <<0, 0, FbWidth, FbHeight>>,
     render_mode |-> "Textured", fog_enabled |-> FALSE,
     polygon_count |-> 0, vertex_count |-> 0, triangle_count |-> 0, quad_count |-> 0]

\* SVPRenderer::reset
RendererReset(r) ==
    [r EXCEPT !.framebuffer = FrameBufferClear(r.framebuffer),
              !.zbuffer = ZBufferClear(r.zbuffer, FOne),
              !.polygon_count = 0, !.vertex_count = 0,
              !.triangle_count = 0, !.quad_count = 0]

\* SVPRenderer::clear
RendererClear(r) ==
    [r EXCEPT !.framebuffer = FrameBufferClear(r.framebuffer),
              !.zbuffer = ZBufferClear(r.zbuffer, FOne)]

\* the conversion from normalised device coordinates to pixels
ToPixels(r, t) ==
    [t EXCEPT !.x = FAdd(FMul(FAdd(FMul(t.x, FHalf), FHalf), FromInt(r.viewport[3])),
                         FromInt(r.viewport[1])),
              !.y = FAdd(FMul(FSub(FOne, FAdd(FMul(t.y, FHalf), FHalf)),
                              FromInt(r.viewport[4])),
                         FromInt(r.viewport[2]))]

\* SVPRenderer::world_to_screen
WorldToScreen(r, vertex) == ToPixels(r, TransformVertex(r.camera, vertex))

RECURSIVE MinOver(_, _)
MinOver(xs, k) == IF k = 1 THEN xs[1] ELSE Min2(xs[k], MinOver(xs, k - 1))

RECURSIVE MaxOver(_, _)
MaxOver(xs, k) == IF k = 1 THEN xs[1] ELSE Max2(xs[k], MaxOver(xs, k - 1))

\* the bounding box of the pixels xs, ys clamped to the viewport
ClampedBox(r, xs, ys, n) ==
    <<Max2(MinOver(xs, n), r.viewport[1]),
      Min2(MaxOver(xs, n), r.viewport[1] + r.viewport[3] - 1),
      Max2(MinOver(ys, n), r.viewport[2]),
      Min2(MaxOver(ys, n), r.viewport[2] + r.viewport[4] - 1)>>

\* v.x as i32 and v.y as i32 for the first k vertices
RECURSIVE PixelXs(_, _)
PixelXs(vs, k) == IF k = 0 THEN << >> ELSE Append(PixelXs(vs, k - 1), ToInt(vs[k].x))

RECURSIVE PixelYs(_, _)
PixelYs(vs, k) == IF k = 0 THEN << >> ELSE Append(PixelYs(vs, k - 1), ToInt(vs[k].y))

\* SVPRenderer::calculate_bounding_box : <<min_x, max_x, min_y, max_y>>
CalculateBoundingBox(r, vs) ==
    ClampedBox(r, PixelXs(vs, Len(vs)), PixelYs(vs, Len(vs)), Len(vs))

\* edge1_x * edge2_y - edge1_y * edge2_x
Cross(edge1_x, edge1_y, edge2_x, edge2_y) ==
    FSub(FMul(edge1_x, edge2_y), FMul(edge1_y, edge2_x))

\* the cross product is_front_facing tests
CrossZ(vs) ==
    Cross(FSub(vs[2].x, vs[1].x), FSub(vs[2].y, vs[1].y),
          FSub(vs[3].x, vs[1].x), FSub(vs[3].y, vs[1].y))

\* SVPRenderer::is_front_facing with a plausible slip: the sign of the cross
\* product is not looked at
IsFrontFacingEitherWay(vs) == Len(vs) >= 3 /\ CrossZ(vs) # 0

\* SVPRenderer::is_front_facing
IsFrontFacing(vs) == Len(vs) >= 3 /\ CrossZ(vs) > 0

\* a / b as the division of i32 does it
Quot(a, b) ==
    IF (a >= 0) = (b > 0) THEN Abs(a) \div Abs(b) ELSE -(Abs(a) \div Abs(b))

\* the ray test of is_point_in_polygon for the edge from (xj, yj) to (xi, yi)
RayCrosses(x, y, xi, yi, xj, yj) ==
    ((yi > y) # (yj > y)) /\ x < Quot((xj - xi) * (y - yi), yj - yi) + xi

\* the edges from edge k on that the ray from (x, y) crosses; edge k ends at
\* vertex k and starts at the vertex before it
RECURSIVE RayCrossings(_, _, _, _)
RayCrossings(x, y, vs, k) ==
    IF k > Len(vs)
    THEN 0
    ELSE (IF RayCrosses(x, y, ToInt(vs[k].x), ToInt(vs[k].y),
                        ToInt(vs[IF k = 1 THEN Len(vs) ELSE k - 1].x),
                        ToInt(vs[IF k = 1 THEN Len(vs) ELSE k - 1].y))
          THEN 1 ELSE 0) + RayCrossings(x, y, vs, k + 1)

\* SVPRenderer::is_point_in_polygon
IsPointInPolygon(x, y, vs) == RayCrossings(x, y, vs, 1) % 2 = 1

\* alpha, beta and gamma from the two numerators and the denominator
Barycentric(alpha, beta) == <<alpha, beta, FSub(FSub(FOne, alpha), beta)>>

BarycentricOver(a, b, denom) ==
    IF Abs(denom) < FTenThousandth
    THEN <<0, 0, 0>>
    ELSE Barycentric(FDiv(a, denom), FDiv(b, denom))

\* calculate_barycentric at the point (x_f, y_f)
BarycentricAt(x_f, y_f, x0, y0, x1, y1, x2, y2) ==
    BarycentricOver(
        FAdd(FMul(FSub(y1, y2), FSub(x_f, x2)), FMul(FSub(x2, x1), FSub(y_f, y2))),
        FAdd(FMul(FSub(y2, y0), FSub(x_f, x2)), FMul(FSub(x0, x2), FSub(y_f, y2))),
        FAdd(FMul(FSub(y1, y2), FSub(x0, x2)), FMul(FSub(x2, x1), FSub(y0, y2))))

\* SVPRenderer::calculate_barycentric : <<alpha, beta, gamma>>
CalculateBarycentric(x, y, vs) ==
    BarycentricAt(FromInt(x), FromInt(y), vs[1].x, vs[1].y, vs[2].x, vs[2].y,
                  vs[3].x, vs[3].y)

\* SVPRenderer::interpolate_depth
InterpolateDepth(bary, vs) ==
    FAdd(FAdd(FMul(bary[1], vs[1].z), FMul(bary[2], vs[2].z)), FMul(bary[3], vs[3].z))

\* v1.z * (1.0 - t_clamped) + v2.z * t_clamped
DepthAt(v1, v2, t_clamped) ==
    FAdd(FMul(v1.z, FSub(FOne, t_clamped)), FMul(v2.z, t_clamped))

\* calculate_depth from dx, dy and length_sq on
DepthAlong(v1, v2, x_f, y_f, dx, dy, length_sq) ==
    IF length_sq < FTenThousandth
    THEN v1.z
    ELSE DepthAt(v1, v2,
                 FClamp(FDiv(FAdd(FMul(FSub(x_f, v1.x), dx), FMul(FSub(y_f, v1.y), dy)),
                             length_sq),
                        0, FOne))

\* dx * dx + dy * dy
LengthSq(dx, dy) == FAdd(FMul(dx, dx), FMul(dy, dy))

\* SVPRenderer::calculate_depth : the depth along a line at pixel (x, y)
CalculateDepth(v1, v2, x, y) ==
    DepthAlong(v1, v2, FromInt(x), FromInt(y), FSub(v2.x, v1.x), FSub(v2.y, v1.y),
               LengthSq(FSub(v2.x, v1.x), FSub(v2.y, v1.y)))

\* TextureUnit::sample at u = v = 0 : black with no texture bound, 0x7C00
\* when the bound texture is not in the cache, else its first pixel
Sample(tu) ==
    IF tu.current_texture = None
    THEN 0
    ELSE IF CacheHas(tu.cache, tu.current_texture[1])
         THEN Rd(tu.cache.textures[tu.current_texture[1]][1].data, 0)
         ELSE 31744

\* if v.w != 0.0 { 1.0 / v.w } else { 1.0 }
InverseW(v) == IF v.w # 0 THEN FDiv(FOne, v.w) ELSE FOne

\* inv_w of calculate_textured_pixel
InterpolateInverseW(bary, vs) ==
    FAdd(FAdd(FMul(bary[1], InverseW(vs[1])), FMul(bary[2], InverseW(vs[2]))),
         FMul(bary[3], InverseW(vs[3])))

\* SVPRenderer::calculate_textured_pixel for vertices with u = v = 0
CalculateTexturedPixel(inv_w, tu, texture_id) ==
    IF inv_w = 0 THEN 31744 ELSE Sample(tu)

\* the match on render_mode in draw_polygon (fog is never enabled here)
PixelColor(r, inv_w, tu, texture_id, color) ==
    IF r.render_mode \in {"Wireframe", "Solid"}
    THEN color
    ELSE CalculateTexturedPixel(inv_w, tu, texture_id)

\* what draw_polygon computes for a pixel inside the polygon before it
\* looks at the buffers: depth, and inv_w for the textured colour
PolygonFragment(x, y, bary, vs) ==
    [x |-> x, y |-> y, depth |-> InterpolateDepth(bary, vs),
     inv_w |-> InterpolateInverseW(bary, vs)]

\* the pixels of row y inside the polygon from column x on, in the order of
\* draw_polygon's inner loop over the bounding box bb
RECURSIVE RowFragmentsFrom(_, _, _, _)
RowFragmentsFrom(vs, bb, x, y) ==
    IF x > bb[2]
    THEN << >>
    ELSE IF IsPointInPolygon(x, y, vs)
         THEN <<PolygonFragment(x, y, CalculateBarycentric(x, y, vs), vs)>>
              \o RowFragmentsFrom(vs, bb, x + 1, y)
         ELSE RowFragmentsFrom(vs, bb, x + 1, y)

\* the pixels inside the polygon from row y on, in the order of
\* draw_polygon's loops
RECURSIVE FragmentsFrom(_, _, _)
FragmentsFrom(vs, bb, y) ==
    IF y > bb[4]
    THEN << >>
    ELSE RowFragmentsFrom(vs, bb, bb[1], y) \o FragmentsFrom(vs, bb, y + 1)

\* draw_polygon from the bounding box up to the buffers
PrepareBoxedPolygon(vs, bb) ==
    [drawn |-> TRUE, n |-> Len(vs), fragments |-> FragmentsFrom(vs, bb, bb[3])]

\* draw_polygon from the screen-space vertices up to the buffers: whether
\* the polygon is drawn at all, and its pixels
PrepareScreenPolygon(r, vs) ==
    IF ~IsFrontFacing(vs)
    THEN [drawn |-> FALSE, n |-> Len(vs), fragments |-> << >>]
    ELSE CHOOSE polygon \in {PrepareBoxedPolygon(vs, bb) :
                                bb \in {CalculateBoundingBox(r, vs)}} : TRUE

\* the first k vertices in screen space
RECURSIVE ScreenVertices(_, _, _)
ScreenVertices(r, vertices, k) ==
    IF k = 0
    THEN << >>
    ELSE Append(ScreenVertices(r, vertices, k - 1), WorldToScreen(r, vertices[k]))

\* draw_polygon up to the buffers; of r only camera and viewport matter
PreparePolygon(r, vertices) ==
    IF Len(vertices) < 3
    THEN [drawn |-> FALSE, n |-> Len(vertices), fragments |-> << >>]
    ELSE CHOOSE polygon \in {PrepareScreenPolygon(r, vs) :
                                vs \in {ScreenVertices(r, vertices, Len(vertices))}} : TRUE

\* the depth test and write of draw_polygon and draw_line for one pixel
WritePixel(r, x, y, depth, color) ==
    IF TestPasses(r.zbuffer, x, y, depth)
    THEN [r EXCEPT !.zbuffer = TestAndWrite(r.zbuffer, x, y, depth),
                   !.framebuffer = DrawPixel(r.framebuffer, x, y, color)]
    ELSE [r EXCEPT !.zbuffer = TestAndWrite(r.zbuffer, x, y, depth)]

\* the bounds test of the loops of draw_polygon and draw_line
OnScreen(r, x, y) ==
    x >= 0 /\ x < r.framebuffer.width /\ y >= 0 /\ y < r.framebuffer.height

\* the body of draw_polygon's loops for one pixel inside the polygon
ShadeFragment(r, fragment, tu, texture_id, color) ==
    IF OnScreen(r, fragment.x, fragment.y)
    THEN WritePixel(r, fragment.x, fragment.y, fragment.depth,
                    PixelColor(r, fragment.inv_w, tu, texture_id, color))
    ELSE r

\* draw_polygon's loops over the pixels from the k-th on; next is the
\* renderer after the k-th
RECURSIVE ShadeFrom(_, _, _, _, _, _)
ShadeFrom(r, fragments, tu, texture_id, color, k) ==
    IF k > Len(fragments)
    THEN r
    ELSE CHOOSE done \in {ShadeFrom(next, fragments, tu, texture_id, color, k + 1) :
                            next \in {ShadeFragment(r, fragments[k], tu, texture_id, color)}} :
             TRUE

\* draw_polygon from the buffers on: the loops and the counters
DrawPrepared(r, polygon, tu, texture_id, color) ==
    IF ~polygon.drawn
    THEN r
    ELSE [ShadeFrom(r, polygon.fragments, tu, texture_id, color, 1)
          EXCEPT !.polygon_count = r.polygon_count + 1,
                 !.vertex_count = r.vertex_count + polygon.n,
                 !.triangle_count = r.triangle_count + (IF polygon.n = 3 THEN 1 ELSE 0),
                 !.quad_count = r.quad_count + (IF polygon.n = 4 THEN 1 ELSE 0)]

\* SVPRenderer::draw_polygon
DrawPolygon(r, vertices, tu, texture_id, color) ==
    DrawPrepared(r, PreparePolygon(r, vertices), tu, texture_id, color)

\* the set-up of draw_line's loop between the pixels (x0, y0) and (x1, y1)
Bresenham(x0, y0, x1, y1) ==
    [dx |-> Abs(x1 - x0), dy |-> -Abs(y1 - y0),
     sx |-> IF x0 < x1 THEN 1 ELSE -1, sy |-> IF y0 < y1 THEN 1 ELSE -1,
     x1 |-> x1, y1 |-> y1]

\* the pixels draw_line's loop visits from (x0, y0) with error term err, in
\* order, each with its depth
RECURSIVE LineFrom(_, _, _, _, _, _)
LineFrom(v1, v2, b, x0, y0, err) ==
    IF x0 = b.x1 /\ y0 = b.y1
    THEN <<[x |-> x0, y |-> y0, depth |-> CalculateDepth(v1, v2, x0, y0)]>>
    ELSE <<[x |-> x0, y |-> y0, depth |-> CalculateDepth(v1, v2, x0, y0)]>>
         \o LineFrom(v1, v2, b,
                     IF 2 * err >= b.dy THEN x0 + b.sx ELSE x0,
                     IF 2 * err <= b.dx THEN y0 + b.sy ELSE y0,
                     err + (IF 2 * err >= b.dy THEN b.dy ELSE 0)
                         + (IF 2 * err <= b.dx THEN b.dx ELSE 0))

\* draw_line from the screen-space vertices up to the buffers
PrepareScreenLine(v1, v2, b) ==
    LineFrom(v1, v2, b, ToInt(v1.x), ToInt(v1.y), b.dx + b.dy)

\* draw_line up to the buffers; of r only camera and viewport matter
PrepareLine(r, v1, v2) ==
    PrepareScreenLine(WorldToScreen(r, v1), WorldToScreen(r, v2),
                      Bresenham(ToInt(WorldToScreen(r, v1).x), ToInt(WorldToScreen(r, v1).y),
                                ToInt(WorldToScreen(r, v2).x), ToInt(WorldToScreen(r, v2).y)))

\* the body of draw_line's loop for one pixel
PlotFragment(r, fragment, color) ==
    IF OnScreen(r, fragment.x, fragment.y)
    THEN WritePixel(r, fragment.x, fragment.y, fragment.depth, color)
    ELSE r

\* draw_line's loop over the pixels from the k-th on; next is the renderer
\* after the k-th
RECURSIVE PlotFrom(_, _, _, _)
PlotFrom(r, fragments, color, k) ==
    IF k > Len(fragments)
    THEN r
    ELSE CHOOSE done \in {PlotFrom(next, fragments, color, k + 1) :
                            next \in {PlotFragment(r, fragments[k], color)}} :
             TRUE

\* draw_line from the buffers on
DrawPreparedLine(r, fragments, color) ==
    [PlotFrom(r, fragments, color, 1) EXCEPT !.polygon_count = r.polygon_count + 1]

\* SVPRenderer::draw_line
DrawLine(r, v1, v2, color) == DrawPreparedLine(r, PrepareLine(r, v1, v2), color)

\* SVPRenderer::swap_buffers
RendererSwapBuffers(r) == [r EXCEPT !.framebuffer = FbSwapBuffers(r.framebuffer)]

\* SVPRenderer::get_frame_buffer
GetFrameBuffer(r) == GetBuffer(r.framebuffer)

\* SVPRenderer::set_render_mode
SetRenderMode(r, mode) == [r EXCEPT !.render_mode = mode]

----------------------------------------------------------------------------
(* svp/mod.rs : SVP.  An SVP value is the record of its fields, and one    *)
(* observation: dma_written, the texram indices the DMA stored to during   *)
(* the latest tick.                                                        *)

SvpNew ==
    [processor |-> ProcessorNew,
     dma |-> DmaNew,
     texture_unit |-> TextureUnitNew,
     renderer |-> RendererNew,
     dram |-> EmptyMem,
     texram |-> EmptyMem,
     regs |-> [r \in RegIds |-> 0],
     enabled |-> FALSE,
     running |-> FALSE,
     irq_pending |-> FALSE,
     bus |-> FALSE,
     dma_written |-> {}]

\* connect_bus : attaches the bus and links the texture unit to texture RAM
ConnectBus(s) ==
    [s EXCEPT !.bus = TRUE, !.texture_unit = ConnectTexram(s.texture_unit)]

\* SvpReset with a plausible slip: the call to self.dma.reset() left out
SvpResetKeepsDma(s) ==
    [s EXCEPT !.processor = ProcessorReset(s.processor),
              !.renderer = RendererReset(s.renderer),
              !.dram = EmptyMem,
              !.texram = EmptyMem,
              !.regs = [r \in RegIds |-> 0],
              !.enabled = FALSE,
              !.running = FALSE,
              !.irq_pending = FALSE]

\* SVP::reset
SvpReset(s) ==
    [s EXCEPT !.processor = ProcessorReset(s.processor),
              !.dma = DmaReset(s.dma),
              !.renderer = RendererReset(s.renderer),
              !.dram = EmptyMem,
              !.texram = EmptyMem,
              !.regs = [r \in RegIds |-> 0],
              !.enabled = FALSE,
              !.running = FALSE,
              !.irq_pending = FALSE]

SetEnabled(s, b) ==
    IF b THEN [s EXCEPT !.enabled = TRUE, !.regs[0] = 32768]
    ELSE [s EXCEPT !.enabled = FALSE]

\* the vertices process_render_command makes of a command: the command's
\* vertices are all (0, 0), z is 0.0 and w is 1.0
CommandVertices == <<Vertex(0, 0, 0, FOne), Vertex(0, 0, 0, FOne),
                     Vertex(0, 0, 0, FOne), Vertex(0, 0, 0, FOne)>>

\* draw_polygon and draw_line on these vertices up to the buffers; nothing
\* changes the camera or the viewport of the facade's renderer, so this part
\* of every call is the same
CommandPolygon == PreparePolygon(RendererNew, CommandVertices)

CommandLine == PrepareLine(RendererNew, CommandVertices[1], CommandVertices[2])

\* SvpProcessRenderCommand with a plausible slip: a command of a type the
\* match does not name clears the frame
SvpProcessRenderCommandClears(s) ==
    LET taken == TakenCommand(s.processor)
        p1 == GetRenderCommand(s.processor)
    IN IF taken = None
       THEN [s EXCEPT !.processor = p1]
       ELSE LET cmd == taken[1]
                r1 == CASE cmd.cmd_type = "DrawPolygon" ->
                             DrawPrepared(s.renderer, CommandPolygon, s.texture_unit,
                                          cmd.texture_id, cmd.color)
                        [] cmd.cmd_type = "DrawLine" ->
                             DrawPreparedLine(s.renderer, CommandLine, cmd.color)
                        [] OTHER -> RendererClear(s.renderer)
            IN [s EXCEPT !.processor = CommandCompleted(p1), !.renderer = r1]

\* SVP::process_render_command
SvpProcessRenderCommand(s) ==
    LET taken == TakenCommand(s.processor)
        p1 == GetRenderCommand(s.processor)
    IN IF taken = None
       THEN [s EXCEPT !.processor = p1]
       ELSE LET cmd == taken[1]
                r1 == CASE cmd.cmd_type = "DrawPolygon" ->
                             DrawPrepared(s.renderer, CommandPolygon, s.texture_unit,
                                          cmd.texture_id, cmd.color)
                        [] cmd.cmd_type = "DrawLine" ->
                             DrawPreparedLine(s.renderer, CommandLine, cmd.color)
                        [] cmd.cmd_type = "ClearFrame" ->
                             RendererClear(s.renderer)
                        [] OTHER -> s.renderer
            IN [s EXCEPT !.processor = CommandCompleted(p1), !.renderer = r1]

\* SvpTick with a plausible slip: the DMA moves two units in one tick
SvpTickBurst(s) ==
    IF ~s.enabled \/ ~s.running
    THEN s
    ELSE LET s1 == [s EXCEPT !.processor = ExecuteCycle(s.processor)]
             t1 == TransferCycle(s1.dma, s1.dram, s1.texram)
             t == TransferCycle(t1.dma, t1.dram, t1.texram)
             s2 == IF IsActive(s1.dma)
                   THEN [s1 EXCEPT !.dma = t.dma, !.dram = t.dram, !.texram = t.texram,
                                   !.dma_written = t1.tex_written \cup t.tex_written]
                   ELSE s1
             s3 == IF RenderCommandReady(s2.processor)
                   THEN SvpProcessRenderCommand(s2)
                   ELSE s2
         IN IF IrqAsserted(s3.processor)
            THEN [s3 EXCEPT !.irq_pending = TRUE]
            ELSE s3

\* SvpTick with a plausible slip: the render check comes before the
\* processor cycle, so a command made ready in a tick waits for the next one
SvpTickRenderFirst(s) ==
    IF ~s.enabled \/ ~s.running
    THEN s
    ELSE LET s0 == IF RenderCommandReady(s.processor)
                   THEN SvpProcessRenderCommand(s)
                   ELSE s
             s1 == [s0 EXCEPT !.processor = ExecuteCycle(s0.processor)]
             t == TransferCycle(s1.dma, s1.dram, s1.texram)
             s2 == IF IsActive(s1.dma)
                   THEN [s1 EXCEPT !.dma = t.dma, !.dram = t.dram, !.texram = t.texram,
                                   !.dma_written = t.tex_written]
                   ELSE s1
         IN IF IrqAsserted(s2.processor)
            THEN [s2 EXCEPT !.irq_pending = TRUE]
            ELSE s2

\* SvpTick with a plausible slip: the guard looks at the running flag only
SvpTickIgnoresEnabled(s) ==
    IF ~s.running
    THEN s
    ELSE LET s1 == [s EXCEPT !.processor = ExecuteCycle(s.processor)]
             t == TransferCycle(s1.dma, s1.dram, s1.texram)
             s2 == IF IsActive(s1.dma)
                   THEN [s1 EXCEPT !.dma = t.dma, !.dram = t.dram, !.texram = t.texram,
                                   !.dma_written = t.tex_written]
                   ELSE s1
             s3 == IF RenderCommandReady(s2.processor)
                   THEN SvpProcessRenderCommand(s2)
                   ELSE s2
         IN IF IrqAsserted(s3.processor)
            THEN [s3 EXCEPT !.irq_pending = TRUE]
            ELSE s3

\* tick
SvpTick(s) ==
    IF ~s.enabled \/ ~s.running
    THEN s
    ELSE LET s1 == [s EXCEPT !.processor = ExecuteCycle(s.processor)]
             t == TransferCycle(s1.dma, s1.dram, s1.texram)
             s2 == IF IsActive(s1.dma)
                   THEN [s1 EXCEPT !.dma = t.dma, !.dram = t.dram, !.texram = t.texram,
                                   !.dma_written = t.tex_written]
                   ELSE s1
             s3 == IF RenderCommandReady(s2.processor)
                   THEN SvpProcessRenderCommand(s2)
                   ELSE s2
         IN IF IrqAsserted(s3.processor)
            THEN [s3 EXCEPT !.irq_pending = TRUE]
            ELSE s3

\* memory/bus.rs MemoryBus::read_word on the cartridge ROM: the ROM is an
\* input of the program; the model fixes one ROM image
BusReadWord(addr) == (addr \div 2) % 65536

\* SvpReadWord with a plausible slip: an address outside the windows reads
\* the last register of the file instead of the fallback
SvpReadWordLatched(s, addr) ==
    LET svp_addr == Mask(addr, 24) IN
    CASE svp_addr <= 16383 ->
           Some(IF svp_addr \div 2 < DramLen THEN Rd(s.dram, svp_addr \div 2) ELSE 0)
      [] svp_addr >= 16384 /\ svp_addr <= 147455 ->
           IF svp_addr < TexramLen
           THEN IF svp_addr + 1 < TexramLen
                THEN Some(Word(Rd(s.texram, svp_addr), Rd(s.texram, svp_addr + 1)))
                ELSE None
           ELSE Some(0)
      [] svp_addr >= 196608 /\ svp_addr <= 196639 ->
           Some(IF (svp_addr - 196608) \div 2 < 16
                THEN s.regs[(svp_addr - 196608) \div 2] ELSE 0)
      [] svp_addr >= 262144 /\ svp_addr <= 4194303 ->
           Some(IF s.bus THEN BusReadWord(addr) ELSE 0)
      [] OTHER -> Some(s.regs[15])

\* read_word : <<value>>, or None where the source indexes texram out of range
SvpReadWord(s, addr) ==
    LET svp_addr == Mask(addr, 24) IN
    CASE svp_addr <= 16383 ->
           Some(IF svp_addr \div 2 < DramLen THEN Rd(s.dram, svp_addr \div 2) ELSE 0)
      [] svp_addr >= 16384 /\ svp_addr <= 147455 ->
           IF svp_addr < TexramLen
           THEN IF svp_addr + 1 < TexramLen
                THEN Some(Word(Rd(s.texram, svp_addr), Rd(s.texram, svp_addr + 1)))
                ELSE None
           ELSE Some(0)
      [] svp_addr >= 196608 /\ svp_addr <= 196639 ->
           Some(IF (svp_addr - 196608) \div 2 < 16
                THEN s.regs[(svp_addr - 196608) \div 2] ELSE 0)
      [] svp_addr >= 262144 /\ svp_addr <= 4194303 ->
           Some(IF s.bus THEN BusReadWord(addr) ELSE 0)
      [] OTHER -> Some(0)

WriteRegister(s, reg, value) ==
    LET s1 == [s EXCEPT !.regs[reg] = value] IN
    CASE reg = 0 ->
           LET old_running == s1.running
               new_running == value % 2 = 1
               s2 == [s1 EXCEPT !.running = new_running,
                                !.processor =
                                    IF ~old_running /\ new_running
                                    THEN ProcessorStart(s1.processor)
                                    ELSE IF old_running /\ ~new_running
                                    THEN ProcessorStop(s1.processor)
                                    ELSE s1.processor]
           IN IF Bit(value, 15) = 1
              THEN [SvpReset(s2) EXCEPT !.regs[0] = 32768]
              ELSE s2
      [] reg = 1 -> [s1 EXCEPT !.dma = SetSource(s1.dma, value)]
      [] reg = 2 -> [s1 EXCEPT !.dma = SetDestination(s1.dma, value)]
      [] reg = 3 ->
           LET d == SetLength(s1.dma, value) IN
           [s1 EXCEPT !.dma = IF Bit(value, 15) = 1 THEN Start(d) ELSE d]
      [] reg = 4 ->
           IF value % 2 = 1
           THEN [s1 EXCEPT !.irq_pending = FALSE,
                           !.processor = ClearIrq(s1.processor)]
           ELSE s1
      [] OTHER -> s1

SvpWriteWord(s, addr, value) ==
    LET svp_addr == Mask(addr, 24) IN
    CASE svp_addr <= 16383 ->
           LET index == svp_addr \div 2 IN
           IF index < DramLen
           THEN LET s1 == [s EXCEPT !.dram = Wr(s.dram, index, value)] IN
                IF index >= 256 /\ index < 384
                THEN [s1 EXCEPT !.processor = WriteCommandBuffer(s1.processor, value)]
                ELSE s1
           ELSE s
      [] svp_addr >= 16384 /\ svp_addr <= 147455 ->
           IF svp_addr < TexramLen - 1
           THEN [s EXCEPT !.texram = Wr(Wr(s.texram, svp_addr, Lo(value)),
                                        svp_addr + 1, Hi(value))]
           ELSE s
      [] svp_addr >= 196608 /\ svp_addr <= 196639 ->
           IF (svp_addr - 196608) \div 2 < 16
           THEN WriteRegister(s, (svp_addr - 196608) \div 2, value)
           ELSE s
      [] OTHER -> s

(* chips/mod.rs : impl CartridgeChip for SVP *)

\* read_byte : <<value>> (read_word is only asked for even addresses here)
SvpReadByte(s, addr) ==
    LET word == SvpReadWord(s, addr - (addr % 2)) IN
    IF word = None THEN None
    ELSE Some(IF addr % 2 = 0 THEN Lo(word[1]) ELSE Hi(word[1]))

\* write_byte (never reached where read_word is out of range: addr & !1
\* is even, and the last even texram index has a successor)
SvpWriteByte(s, addr, value) ==
    LET word_addr == addr - (addr % 2)
        current == SvpReadWord(s, word_addr)[1]
        new_word == IF addr % 2 = 0
                    THEN (current \div 256) * 256 + value
                    ELSE (current % 256) + value * 256
    IN SvpWriteWord(s, word_addr, new_word)

\* A byte buffer (Vec<u8>, &[u8]) is its length and, like a memory, the
\* function from the offsets that hold a non-zero byte to that byte.

\* 3 + regs.len() * 2 + dram.len() * 2
SnapshotLen == 3 + 16 * 2 + DramLen * 2

\* SaveStateByte with a plausible slip: to_be_bytes for to_le_bytes
SaveStateByteBigEndian(s, off) ==
    CASE off = 0 -> IF s.enabled THEN 1 ELSE 0
      [] off = 1 -> IF s.running THEN 1 ELSE 0
      [] off = 2 -> IF s.irq_pending THEN 1 ELSE 0
      [] off >= 3 /\ off < 35 ->
           IF (off - 3) % 2 = 0 THEN Hi(s.regs[(off - 3) \div 2])
           ELSE Lo(s.regs[(off - 3) \div 2])
      [] OTHER ->
           IF (off - 35) % 2 = 0 THEN Hi(Rd(s.dram, (off - 35) \div 2))
           ELSE Lo(Rd(s.dram, (off - 35) \div 2))

\* the byte save_state pushes at offset off: the three flags, then each
\* register and each working-memory word through to_le_bytes
SaveStateByte(s, off) ==
    CASE off = 0 -> IF s.enabled THEN 1 ELSE 0
      [] off = 1 -> IF s.running THEN 1 ELSE 0
      [] off = 2 -> IF s.irq_pending THEN 1 ELSE 0
      [] off >= 3 /\ off < 35 ->
           IF (off - 3) % 2 = 0 THEN Lo(s.regs[(off - 3) \div 2])
           ELSE Hi(s.regs[(off - 3) \div 2])
      [] OTHER ->
           IF (off - 35) % 2 = 0 THEN Lo(Rd(s.dram, (off - 35) \div 2))
           ELSE Hi(Rd(s.dram, (off - 35) \div 2))

\* save_state : the buffer returned
SaveState(s) ==
    LET offsets == (0 .. 34) \cup {35 + 2 * i : i \in DOMAIN s.dram}
                            \cup {36 + 2 * i : i \in DOMAIN s.dram}
    IN [len |-> SnapshotLen,
        bytes |-> [off \in {o \in offsets : SaveStateByte(s, o) # 0} |->
                      SaveStateByte(s, off)]]

\* the first n bytes of a buffer
Truncated(data, n) ==
    [len |-> n, bytes |-> [off \in {o \in DOMAIN data.bytes : o < n} |-> data.bytes[off]]]

\* what load_state returns
LoadStateReturns(s, data) == data.len >= SnapshotLen

\* LoadState with a plausible slip: the flags are read before the length is
\* looked at
LoadStateFlagsFirst(s, data) ==
    LET b == data.bytes
        flagged == [s EXCEPT !.enabled = Rd(b, 0) # 0,
                             !.running = Rd(b, 1) # 0,
                             !.irq_pending = Rd(b, 2) # 0]
    IN IF data.len < SnapshotLen
       THEN flagged
       ELSE [flagged EXCEPT
                !.regs = [r \in RegIds |-> Word(Rd(b, 3 + 2 * r), Rd(b, 4 + 2 * r))],
                !.dram = LET words == {(o - 35) \div 2 :
                                          o \in {o \in DOMAIN b : o >= 35 /\ o < SnapshotLen}}
                         IN [i \in words |-> Word(Rd(b, 35 + 2 * i), Rd(b, 36 + 2 * i))]]

\* load_state : the SVP after the call
LoadState(s, data) ==
    IF data.len < SnapshotLen
    THEN s
    ELSE LET b == data.bytes IN
         [s EXCEPT !.enabled = Rd(b, 0) # 0,
                   !.running = Rd(b, 1) # 0,
                   !.irq_pending = Rd(b, 2) # 0,
                   !.regs = [r \in RegIds |-> Word(Rd(b, 3 + 2 * r), Rd(b, 4 + 2 * r))],
                   !.dram = LET words == {(o - 35) \div 2 :
                                             o \in {o \in DOMAIN b : o >= 35 /\ o < SnapshotLen}}
                            IN [i \in words |-> Word(Rd(b, 35 + 2 * i), Rd(b, 36 + 2 * i))]]

----------------------------------------------------------------------------
(* chips/mod.rs : ChipManager.  A chip is held by what chip_type() returns *)
(* for it; chips is the Vec in insertion order.                            *)

ChipManagerNew == [chips |-> << >>, active_chip_type |-> "None"]

\* ChipManager::add_chip
AddChip(mg, chip) == [mg EXCEPT !.chips = Append(mg.chips, chip)]

\* chips.iter().position(|c| c.chip_type() == chip_type) : 0 when there is none
Position(chips, chip_type) ==
    IF \E i \in DOMAIN chips : chips[i] = chip_type
    THEN CHOOSE i \in DOMAIN chips :
            /\ chips[i] = chip_type
            /\ \A j \in 1 .. i - 1 : chips[j] # chip_type
    ELSE 0

\* Vec::remove(pos)
RemoveAt(chips, pos) ==
    [i \in 1 .. Len(chips) - 1 |-> IF i < pos THEN chips[i] ELSE chips[i + 1]]

\* what ChipManager::remove_chip returns
RemoveChipReturns(mg, chip_type) ==
    IF Position(mg.chips, chip_type) # 0 THEN Some(chip_type) ELSE None

\* ChipManager::remove_chip : the manager after the call
RemoveChip(mg, chip_type) ==
    LET pos == Position(mg.chips, chip_type) IN
    IF pos # 0
    THEN [chips |-> RemoveAt(mg.chips, pos),
          active_chip_type |-> IF mg.active_chip_type = chip_type
                               THEN "None" ELSE mg.active_chip_type]
    ELSE mg

\* ChipManager::get_chip
GetChip(mg, chip_type) ==
    IF Position(mg.chips, chip_type) # 0
    THEN Some(mg.chips[Position(mg.chips, chip_type)]) ELSE None

\* ChipManager::set_active_chip
SetActiveChip(mg, chip_type) == [mg EXCEPT !.active_chip_type = chip_type]

\* ChipManager::get_active_chip
GetActiveChip(mg) == GetChip(mg, mg.active_chip_type)

\* ChipManager::has_chip
HasChip(mg, chip_type) == \E i \in DOMAIN mg.chips : mg.chips[i] = chip_type

----------------------------------------------------------------------------
(* The state as one SVP value, and its installation as the next state. *)

Cur ==
    [processor |-> processor, dma |-> dma, texture_unit |-> texture_unit,
     renderer |-> renderer, dram |-> dram, texram |-> texram, regs |-> regs,
     enabled |-> enabled, running |-> running, irq_pending |-> irq_pending,
     bus |-> bus, dma_written |-> {}]

Install(s) ==
    /\ processor' = s.processor
    /\ dma' = s.dma
    /\ texture_unit' = s.texture_unit
    /\ renderer' = s.renderer
    /\ dram' = s.dram
    /\ texram' = s.texram
    /\ regs' = s.regs
    /\ enabled' = s.enabled
    /\ running' = s.running
    /\ irq_pending' = s.irq_pending
    /\ bus' = s.bus
    /\ manager' = manager

\* the observation an operation leaves: its name, its arguments, whether the
\* processor core was running before it, and, for tick, the instructions
\* executed, the DMA units moved, the render commands taken and the texram
\* indices the DMA stored to
Obs(op, addr, value) ==
    [op |-> op, addr |-> addr, value |-> value, was_running |-> processor.running,
     instrs |-> 0, units |-> 0, handed |-> 0, written |-> {}]

\* no transfer under observation; started tells whether start() was called
NoRun(started) ==
    [valid |-> FALSE, n |-> 0, k |-> 0, src |-> 0, dst |-> 0,
     direction |-> "DramToTexRam", dram |-> EmptyMem, started |-> started]

InitFrom(s) ==
    /\ processor = s.processor
    /\ dma = s.dma
    /\ texture_unit = s.texture_unit
    /\ renderer = s.renderer
    /\ dram = s.dram
    /\ texram = s.texram
    /\ regs = s.regs
    /\ enabled = s.enabled
    /\ running = s.running
    /\ irq_pending = s.irq_pending
    /\ bus = s.bus
    /\ manager = ChipManagerNew

NewObs ==
    [op |-> "new", addr |-> 0, value |-> 0, was_running |-> FALSE,
     instrs |-> 0, units |-> 0, handed |-> 0, written |-> {}]

----------------------------------------------------------------------------
(* SpecDma : the DMA controller driven through its own interface, over     *)
(* memories the caller passes in.  The caller sets the addresses while the *)
(* controller is idle and starts it once.                                   *)

\* 0x000000, 0x003FFE, 0x004000, 0x01FFFE, 0x024000, 0xFFFFFE, 0x1004000
DmaAddrs == {0, 16382, 16384, 131070, 147456, 16777214, 16793600}

DmaLengths == (0 .. MaxLen) \cup {32768, 32768 + MaxLen}

DramInits ==
    {EmptyMem,
     (0 :> 4660) @@ (1 :> 43981) @@ (2 :> 255) @@ (3 :> 65280) @@ (8191 :> 48879)}

TexramInits ==
    {EmptyMem,
     (0 :> 17) @@ (1 :> 34) @@ (16384 :> 51) @@ (16385 :> 68)
       @@ (131070 :> 85) @@ (131071 :> 102)}

\* an address that transfer cycles have advanced at most MaxAdvance units
\* past an address of DmaAddrs
Advanced(a) == \E b \in DmaAddrs : a - Mask(b, 24) \in 0 .. 2 * MaxAdvance

OnlyDma == UNCHANGED <<processor, texture_unit, renderer, regs, enabled,
                       running, irq_pending, bus, manager>>

InitDma ==
    /\ \E dr \in DramInits, tx \in TexramInits :
          InitFrom([SvpNew EXCEPT !.dram = dr, !.texram = tx])
    /\ last = NewObs
    /\ run = NoRun(FALSE)

DmaSetSource ==
    \E a \in DmaAddrs :
        /\ ~dma.active
        /\ dma' = SetSource(dma, a)
        /\ last' = Obs("set_source", a, 0)
        /\ run' = NoRun(run.started)
        /\ UNCHANGED <<dram, texram>> /\ OnlyDma

DmaSetDestination ==
    \E a \in DmaAddrs :
        /\ ~dma.active
        /\ dma' = SetDestination(dma, a)
        /\ last' = Obs("set_destination", a, 0)
        /\ run' = NoRun(run.started)
        /\ UNCHANGED <<dram, texram>> /\ OnlyDma

DmaSetLength ==
    \E n \in DmaLengths :
        /\ dma' = SetLength(dma, n)
        /\ last' = Obs("set_length", 0, n)
        /\ run' = NoRun(run.started)
        /\ UNCHANGED <<dram, texram>> /\ OnlyDma

DmaStart ==
    /\ ~run.started
    /\ dma' = Start(dma)
    /\ last' = Obs("start", 0, 0)
    /\ run' = [valid |-> TRUE, n |-> dma.length, k |-> 0,
               src |-> dma.src_addr, dst |-> dma.dst_addr,
               direction |-> dma.direction, dram |-> dram,
               started |-> TRUE]
    /\ UNCHANGED <<dram, texram>> /\ OnlyDma

DmaTransferCycle ==
    /\ Advanced(dma.src_addr + 2) /\ Advanced(dma.dst_addr + 2)
    /\ LET t == TransferCycle(dma, dram, texram) IN
         /\ dma' = t.dma
         /\ dram' = t.dram
         /\ texram' = t.texram
         /\ last' = [Obs("transfer_cycle", 0, 0) EXCEPT
                        !.units = dma.length - t.dma.length,
                        !.written = t.tex_written]
    /\ run' = IF run.valid /\ run.k <= run.n
              THEN [run EXCEPT !.k = run.k + 1] ELSE run
    /\ OnlyDma

DmaResetOp ==
    /\ dma' = DmaReset(dma)
    /\ last' = Obs("reset", 0, 0)
    /\ run' = NoRun(run.started)
    /\ UNCHANGED <<dram, texram>> /\ OnlyDma

NextDma ==
    \/ DmaSetSource
    \/ DmaSetDestination
    \/ DmaSetLength
    \/ DmaStart
    \/ DmaTransferCycle
    \/ DmaResetOp

SpecDma == InitDma /\ [][NextDma]_vars

----------------------------------------------------------------------------
(* Claims about the DMA controller, checked under SpecDma. *)

\* C2 (as claimed): in every reachable state of the DMA controller,
\* length == 0 implies active == false.
C2_ZeroLengthInactive == dma.length = 0 => ~IsActive(dma)

\* C3: a controller started with length N >= 1 is active after every k < N
\* calls of transfer_cycle and inactive after N calls, whatever the addresses.
C3_ActiveUntilNthCycle ==
    (run.valid /\ run.n >= 1) => (IsActive(dma) <=> run.k < run.n)

\* a transfer of two or more units has run to its end with its destination
\* outside texture memory
C3_Witness ==
    /\ run.valid /\ run.n >= 2 /\ run.k = run.n
    /\ run.dst >= TexramLen
    /\ ~IsActive(dma)

\* C4: Scenario A.  Source 0x0000, destination 0x004000, length 4, start,
\* four transfer cycles: texture-memory bytes 0x4000..0x4007 are the
\* working-memory words 0..3, low byte first, read_word over the texture
\* window returns those words, working memory is unchanged and the
\* controller is inactive.
C4_ScenarioA ==
    (/\ run.valid /\ run.src = 0 /\ run.dst = 16384
     /\ run.direction = "DramToTexRam" /\ run.n = 4 /\ run.k = 4)
    => /\ \A i \in 0 .. 3 :
            /\ Rd(texram, 16384 + 2 * i) = Lo(Rd(run.dram, i))
            /\ Rd(texram, 16384 + 2 * i + 1) = Hi(Rd(run.dram, i))
            /\ SvpReadWord(Cur, 16384 + 2 * i) = Some(Rd(run.dram, i))
       /\ dram = run.dram
       /\ ~IsActive(dma)

\* Scenario A has run over a working memory whose first four words are
\* non-zero and differ
C4_Witness ==
    /\ run.valid /\ run.src = 0 /\ run.dst = 16384
    /\ run.direction = "DramToTexRam" /\ run.n = 4 /\ run.k = 4
    /\ Cardinality({Rd(run.dram, i) : i \in 0 .. 3}) = 4
    /\ Rd(texram, 16385) # Rd(texram, 16384)

\* C5: one transfer_cycle of an active controller with length > 0 moves one
\* 16-bit unit (both bytes, or nothing when an index is out of range), steps
\* both addresses by 2 and the length by 1, clears active exactly when the
\* new length is 0, and changes no other memory cell.
C5_OneUnitPerCycle ==
    [][(last'.op = "transfer_cycle" /\ dma.active /\ dma.length > 0) =>
        /\ dma'.src_addr = dma.src_addr + 2
        /\ dma'.dst_addr = dma.dst_addr + 2
        /\ dma'.length = dma.length - 1
        /\ dma'.active <=> dma'.length # 0
        /\ IF dma.direction = "DramToTexRam"
           THEN /\ dram' = dram
                /\ IF dma.src_addr \div 2 < DramLen /\ dma.dst_addr + 1 < TexramLen
                   THEN /\ Rd(texram', dma.dst_addr) = Lo(Rd(dram, dma.src_addr \div 2))
                        /\ Rd(texram', dma.dst_addr + 1) = Hi(Rd(dram, dma.src_addr \div 2))
                        /\ Diff(texram, texram') \subseteq {dma.dst_addr, dma.dst_addr + 1}
                   ELSE texram' = texram
           ELSE /\ texram' = texram
                /\ IF dma.src_addr + 1 < TexramLen /\ dma.dst_addr \div 2 < DramLen
                   THEN /\ Rd(dram', dma.dst_addr \div 2) =
                              Word(Rd(texram, dma.src_addr), Rd(texram, dma.src_addr + 1))
                        /\ Diff(dram, dram') \subseteq {dma.dst_addr \div 2}
                   ELSE dram' = dram
      ]_vars

\* a transfer cycle has just stored a non-zero unit into texture memory
C5_Witness ==
    /\ last.op = "transfer_cycle" /\ last.units = 1
    /\ \E i \in last.written : Rd(texram, i) # 0

\* C6 (as claimed): set_destination selects working-memory -> texture-memory
\* exactly when the masked address lies in 0x004000-0x023FFF.
C6_DirectionByWindow ==
    last.op = "set_destination" =>
        (dma.direction = "DramToTexRam"
            <=> (Mask(last.addr, 24) >= 16384 /\ Mask(last.addr, 24) <= 147455))

\* C7 (as claimed): start() on a controller whose length is 0 leaves it
\* inactive.
C7_StartZeroLengthNoop ==
    (last.op = "start" /\ dma.length = 0) => ~IsActive(dma)

----------------------------------------------------------------------------
(* SpecProc : the processor core driven through its own interface          *)
(* (start, stop, reset, execute_cycle, write_command_buffer,               *)
(* get_render_command, command_completed).                                 *)

\* 0x8000 DrawPolygon, 0x8125 DrawLine texture 2 colour 5, 0x0123 no trigger
ProcCmdWords == {32768, 33061, 291}

OnlyProcessor == UNCHANGED <<dma, texture_unit, renderer, dram, texram, regs,
                             enabled, running, irq_pending, bus, manager, run>>

InitProc ==
    /\ InitFrom(SvpNew)
    /\ last = NewObs
    /\ run = NoRun(FALSE)

ProcStart ==
    /\ processor' = ProcessorStart(processor)
    /\ last' = Obs("start", 0, 0)
    /\ OnlyProcessor

ProcStop ==
    /\ processor' = ProcessorStop(processor)
    /\ last' = Obs("stop", 0, 0)
    /\ OnlyProcessor

ProcResetOp ==
    /\ processor' = ProcessorReset(processor)
    /\ last' = Obs("reset", 0, 0)
    /\ OnlyProcessor

ProcExecuteCycle ==
    /\ processor.pc < 2 * MaxCycles
    /\ LET p == ExecuteCycle([processor EXCEPT !.icount = 0]) IN
         /\ processor' = [p EXCEPT !.icount = 0]
         /\ last' = [Obs("execute_cycle", 0, 0) EXCEPT !.instrs = p.icount]
    /\ OnlyProcessor

ProcWriteCommandBuffer ==
    \E v \in ProcCmdWords :
        /\ processor.cmd_write_ptr < MaxCmds
        /\ processor' = WriteCommandBuffer(processor, v)
        /\ last' = Obs("write_command_buffer", 0, v)
        /\ OnlyProcessor

ProcGetRenderCommand ==
    /\ processor' = GetRenderCommand(processor)
    /\ last' = [Obs("get_render_command", 0, 0) EXCEPT
                   !.handed = Len(GetRenderCommand(processor).delivered)
                              - Len(processor.delivered)]
    /\ OnlyProcessor

ProcCommandCompleted ==
    /\ processor' = CommandCompleted(processor)
    /\ last' = Obs("command_completed", 0, 0)
    /\ OnlyProcessor

NextProc ==
    \/ ProcStart
    \/ ProcStop
    \/ ProcResetOp
    \/ ProcExecuteCycle
    \/ ProcWriteCommandBuffer
    \/ ProcGetRenderCommand
    \/ ProcCommandCompleted

SpecProc == InitProc /\ [][NextProc]_vars

Range(q) == {q[i] : i \in 1 .. Len(q)}

\* C8: at most one render command is pending: the command that is ready is
\* the latest one triggered; a command overwritten while ready is never
\* delivered; get_render_command delivers no command twice.
C8_SingleSlotHandshake ==
    /\ processor.cmd_ready =>
          /\ processor.current_cmd # None
          /\ processor.current_cmd[1].serial = processor.serial - 1
    /\ processor.dropped \cap Range(processor.delivered) = {}
    /\ Cardinality(Range(processor.delivered)) = Len(processor.delivered)

\* a command was overwritten while ready, and a later one has been delivered
C8_Witness ==
    \E d \in processor.dropped :
        \E i \in 1 .. Len(processor.delivered) : processor.delivered[i] > d

----------------------------------------------------------------------------
(* The SVP driven by its host: reset, set_enabled, connect_bus, tick,      *)
(* write_word, load_state, and bind_texture on the public texture unit.    *)
(* Three specifications share these operations and differ in the words the *)
(* host writes: Spec (control, DMA and command window), SpecCtl (control   *)
(* register and snapshots), SpecTex (DMA into a cached texture).           *)

Init ==
    /\ InitFrom(SvpNew)
    /\ last = NewObs
    /\ run = NoRun(FALSE)

\* reset(); the observation holds what the call found: how many of working
\* memory, texture memory and the register file held a non-zero cell (addr)
\* and whether the DMA controller was active (value)
Reset ==
    /\ Install(SvpReset(Cur))
    /\ last' = Obs("reset",
                   (IF dram # EmptyMem THEN 1 ELSE 0)
                      + (IF texram # EmptyMem THEN 1 ELSE 0)
                      + (IF \E r \in RegIds : regs[r] # 0 THEN 1 ELSE 0),
                   IF dma.active THEN 1 ELSE 0)
    /\ UNCHANGED run

SetEnabledOp ==
    \E b \in BOOLEAN :
        /\ Install(SetEnabled(Cur, b))
        /\ last' = Obs("set_enabled", 0, IF b THEN 1 ELSE 0)
        /\ UNCHANGED run

ConnectBusOp ==
    /\ Install(ConnectBus(Cur))
    /\ last' = Obs("connect_bus", 0, 0)
    /\ UNCHANGED run

\* tick(), while the processor has run fewer than MaxCycles cycles since its
\* start and the DMA has advanced fewer than MaxHostLen units
Tick ==
    /\ processor.pc < 2 * MaxCycles
    /\ dma.src_addr < 2 * MaxHostLen
    /\ \E s \in {SvpTick([Cur EXCEPT !.processor.icount = 0])} :
         /\ Install([s EXCEPT !.processor.icount = 0])
         /\ last' = [Obs("tick", 0, 0) EXCEPT
                        !.instrs = s.processor.icount,
                        !.units = dma.length - s.dma.length,
                        !.handed = Len(s.processor.delivered) - Len(processor.delivered),
                        !.written = s.dma_written]
    /\ UNCHANGED run

\* write_word(addr, value) for a pair of W; a write into the command window
\* (word 0x100) while fewer than MaxCmds words were written since reset
WriteWordFrom(W) ==
    \E w \in W :
        /\ (w[1] = 512 => processor.cmd_write_ptr < MaxCmds)
        /\ Install(SvpWriteWord(Cur, w[1], w[2]))
        /\ last' = Obs("write_word", w[1], w[2])
        /\ UNCHANGED run

BindTextureOp ==
    \E id \in {2} :
        /\ texture_unit.cache.hit_count + texture_unit.cache.miss_count < MaxBinds
        /\ Install([Cur EXCEPT !.texture_unit = BindTexture(texture_unit, id, texram)])
        /\ last' = Obs("bind_texture", 0, id)
        /\ UNCHANGED run

\* a snapshot taken from an enabled, running SVP; one taken from an SVP
\* with working memory and registers filled in as well; the latter cut short
\* after 16 bytes and one byte before its end
Snapshots ==
    LET full == SaveState(SvpWriteWord(SetEnabled(SvpNew, TRUE), 196608, 1))
        filled == SaveState(
                     SvpWriteWord(
                        SvpWriteWord(
                           SvpWriteWord(SetEnabled(SvpNew, TRUE), 0, 4660),
                           16382, 48879),
                        196618, 43981))
    IN {full, filled, Truncated(filled, 16), Truncated(filled, SnapshotLen - 1)}

\* load_state; the observation holds the buffer's length (value) and what
\* the call returned (addr: 1 for true, 0 for false)
LoadStateOp ==
    \E data \in Snapshots :
        /\ Install(LoadState(Cur, data))
        /\ last' = Obs("load_state", IF LoadStateReturns(Cur, data) THEN 1 ELSE 0,
                       data.len)
        /\ UNCHANGED run

\* save_state; the observation holds the length of the buffer returned
SaveStateOp ==
    /\ Install(Cur)
    /\ last' = Obs("save_state", 0, SaveState(Cur).len)
    /\ UNCHANGED run

\* register 0 (0x030000): stop, run; register 3 (0x030006): DMA length with
\* the start bit; command window word 0x100 (0x000200): 0x8200 ClearFrame;
\* the first word of texture memory (0x004000)
HostWords ==
    {<<196608, v>> : v \in {0, 1}}
    \cup {<<196614, 32768 + n>> : n \in 0 .. MaxHostLen}
    \cup {<<512, 33280>>}
    \cup {<<16384, 4660>>}

WriteWord == WriteWordFrom(HostWords)

Next ==
    \/ Reset
    \/ SetEnabledOp
    \/ Tick
    \/ WriteWord

Spec == Init /\ [][Next]_vars

\* register 0: stop, run, reset pulse, reset pulse with the run bit
CtlWords == {<<196608, v>> : v \in {0, 1, 32768, 32769}}

CtlWriteWord == WriteWordFrom(CtlWords)

NextCtl ==
    \/ Reset
    \/ SetEnabledOp
    \/ Tick
    \/ CtlWriteWord
    \/ LoadStateOp
    \/ SaveStateOp

SpecCtl == Init /\ [][NextCtl]_vars

\* register 0: run; register 2 (0x030004): DMA destination 0x4000, where
\* texture 2 is backed; register 3: one unit with the start bit; DRAM word 0
TexWords == {<<196608, 1>>, <<196612, 16384>>, <<196614, 32769>>, <<0, 4660>>}

TexWriteWord == WriteWordFrom(TexWords)

NextTex ==
    \/ SetEnabledOp
    \/ ConnectBusOp
    \/ BindTextureOp
    \/ Tick
    \/ TexWriteWord

SpecTex == Init /\ [][NextTex]_vars

----------------------------------------------------------------------------
(* Claims about the host-facing SVP *)

C9_TickDoesOneOfEach ==
    last.op = "tick" =>
        /\ last.instrs <= 1
        /\ last.units >= 0 /\ last.units <= 1
        /\ last.handed <= 1

\* a tick that executed an instruction, moved a unit and handed a command
\* over, with DMA units and command words still waiting
C9_Witness ==
    /\ last.op = "tick"
    /\ last.instrs = 1 /\ last.units = 1 /\ last.handed = 1
    /\ dma.active /\ dma.length >= 1
    /\ processor.cmd_read_ptr # processor.cmd_write_ptr

\* C10 : after a host write of v to register 0: with bit 15 of v set the
\* processor state is the freshly initialised one and the processor is not
\* running; otherwise the processor runs exactly when bit 0 of v is set, and
\* a processor that was not running and now runs has pc = 0 (checked under
\* SpecCtl; after load_state the facade's running flag can be set while the
\* processor's is not, and the write then never starts the processor)
C10_ControlRegisterWrite ==
    (last.op = "write_word" /\ Mask(last.addr, 24) = 196608) =>
        IF Bit(last.value, 15) = 1
        THEN processor = ProcessorNew /\ ~processor.running
        ELSE /\ processor.running <=> (last.value % 2 = 1)
             /\ (~last.was_running /\ processor.running) => processor.pc = 0

----------------------------------------------------------------------------
(* SpecExec : execute_cycle and write_command_buffer over every kind of    *)
(* processor state: the instruction word under the program counter, the    *)
(* program counter, the registers, the command buffer and the pending      *)
(* render command are the inputs of execute_cycle.                         *)

\* one word per opcode 0x0 .. 0xF, with rd, rs and imm set:
\* 0x0120 MOV, 0x1234 ADD, 0x2345 SUB, 0x3556 CMP, 0x4FFF, 0x5ABC, 0x6123,
\* 0x7FFF, 0x8020 JMP, 0x9030 CALL, 0xA000 RET, 0xB2F7 RENDER, 0xC125,
\* 0xD0F0, 0xE800, 0xFFFF
ExecInstrs ==
    {288, 4660, 9029, 13654, 20479, 23228, 24867, 32767,
     32800, 36912, 40960, 45815, 49445, 53488, 59392, 65535}

\* 0, 0x000FFE (last code-cache word), 0x001000 (index wraps to 0),
\* 0xFFFFFE, 0xFFFFFFFE (held as -2)
ExecPcs == {0, 4094, 4096, 16777214, -2}

\* zeroed registers and status; registers with r2 = 0x01000FFF (odd, above
\* 24 bits), r3 = 0x20, r4 = 3, r5 = 0x56, r15 = 0x1FFE and the N flag set
ExecRegs ==
    {[regs |-> [r \in RegIds |-> 0], sr |-> 0],
     [regs |-> [r \in RegIds |-> CASE r = 2 -> 16781311 [] r = 3 -> 32 [] r = 4 -> 3
                                   [] r = 5 -> 86 [] r = 15 -> 8190 [] OTHER -> 0],
      sr |-> 2]}

\* command buffers: empty; one trigger entry 0x8125; one plain entry
\* 0x0123; one trigger entry in the last slot with the write pointer wrapped;
\* empty with both pointers on the last slot, which holds an old entry
ExecBuffers ==
    LET zero == [i \in 0 .. CmdBufLen - 1 |-> 0] IN
    {[buf |-> zero, r |-> 0, w |-> 0],
     [buf |-> [zero EXCEPT ![0] = 33061], r |-> 0, w |-> 1],
     [buf |-> [zero EXCEPT ![0] = 291], r |-> 0, w |-> 1],
     [buf |-> [zero EXCEPT ![CmdBufLen - 1] = 33061], r |-> CmdBufLen - 1, w |-> 0],
     [buf |-> [zero EXCEPT ![CmdBufLen - 1] = 33061], r |-> CmdBufLen - 1,
      w |-> CmdBufLen - 1]}

\* 0x8125 DrawLine texture 2 colour 5, 0x0123 no trigger
ExecCmdWords == {33061, 291}

\* a started processor with the word instr under pc
ExecState(instr, pc, rg, b, pending) ==
    LET p0 == [ProcessorStart(ProcessorNew) EXCEPT
                  !.pc = pc, !.regs = rg.regs, !.sr = rg.sr,
                  !.cmd_buffer = b.buf, !.cmd_read_ptr = b.r, !.cmd_write_ptr = b.w]
        p1 == [p0 EXCEPT !.code_cache = Wr(p0.code_cache, FetchIndex(p0), instr)]
    IN IF pending THEN ProcessRenderCommand(p1, 45056) ELSE p1

InitExec ==
    /\ \E instr \in ExecInstrs, pc \in ExecPcs, rg \in ExecRegs,
          b \in ExecBuffers, pending \in BOOLEAN :
          InitFrom([SvpNew EXCEPT !.processor = ExecState(instr, pc, rg, b, pending)])
    /\ last = NewObs
    /\ run = NoRun(FALSE)

\* execute_cycle, at most MaxCycles times; the observation holds the program
\* counter before the cycle (addr), the word fetched (value) and the number
\* of command-buffer entries the cycle removed (units)
ExecCycle ==
    /\ processor.icount < MaxCycles
    /\ processor' = ExecuteCycle(processor)
    /\ last' = [Obs("execute_cycle", processor.pc, FetchInstruction(processor)) EXCEPT
                   !.instrs = ExecuteCycle(processor).icount - processor.icount,
                   !.units = (ExecuteCycle(processor).cmd_read_ptr
                              - processor.cmd_read_ptr) % CmdBufLen]
    /\ OnlyProcessor

\* write_command_buffer, while fewer than MaxCmds entries wait
ExecWriteCommandBuffer ==
    \E v \in ExecCmdWords :
        /\ (processor.cmd_write_ptr - processor.cmd_read_ptr) % CmdBufLen < MaxCmds
        /\ processor' = WriteCommandBuffer(processor, v)
        /\ last' = Obs("write_command_buffer", 0, v)
        /\ OnlyProcessor

NextExec ==
    \/ ExecCycle
    \/ ExecWriteCommandBuffer

SpecExec == InitExec /\ [][NextExec]_vars

----------------------------------------------------------------------------
(* Claims about execute_cycle, checked under SpecExec *)

\* the processor after the fetch, decode and execute stages and the program
\* counter update of one execute_cycle, before the command buffer is looked at
AfterExecuteStage(p) ==
    LET instr == FetchInstruction(p)
        latched == [p EXCEPT !.pipeline[1] = instr, !.pipeline[2] = instr]
        executed == ExecuteInstruction(latched, instr)
    IN [executed EXCEPT !.pc = executed.pc + 2, !.icount = executed.icount + 1]

\* C11 : an execute_cycle of a running processor removes at most one entry
\* from the command buffer, after the execute stage, and it is the entry
\* under the read pointer (write_command_buffer stores under the write
\* pointer, so entries leave in the order they came); an entry with bit 15
\* set leaves the processor as the render-trigger instruction with the same
\* low 12 bits would, an entry with bit 15 clear only moves the read pointer
C11_DrainOneInOrder ==
    [][/\ (last'.op = "execute_cycle" /\ processor.running /\ ~processor.halted) =>
            LET r == processor.cmd_read_ptr
                e == processor.cmd_buffer[r]
                staged == AfterExecuteStage(processor)
            IN /\ processor'.cmd_buffer = processor.cmd_buffer
               /\ processor'.cmd_write_ptr = processor.cmd_write_ptr
               /\ IF r = processor.cmd_write_ptr
                  THEN processor' = staged
                  ELSE IF Bit(e, 15) = 1
                       THEN processor' =
                              [ExecuteInstruction(staged, 45056 + (e % 4096)) EXCEPT
                                  !.cmd_read_ptr = (r + 1) % CmdBufLen]
                       ELSE processor' =
                              [staged EXCEPT !.cmd_read_ptr = (r + 1) % CmdBufLen]
       /\ last'.op = "write_command_buffer" =>
            /\ processor' =
                 [processor EXCEPT
                     !.cmd_buffer[processor.cmd_write_ptr] = last'.value,
                     !.cmd_write_ptr = (processor.cmd_write_ptr + 1) % CmdBufLen]
      ]_vars

\* a cycle executed the render-trigger instruction 0xB2F7 and then removed
\* the trigger entry 0x8125 from the last slot of the buffer: the pending
\* command is the entry's, and a later entry still waits
C11_Witness ==
    /\ last.op = "execute_cycle" /\ last.units = 1
    /\ last.value = 45815
    /\ processor.cmd_read_ptr = 0
    /\ processor.cmd_buffer[CmdBufLen - 1] = 33061
    /\ processor.cmd_write_ptr = 1
    /\ processor.cmd_ready
    /\ processor.current_cmd # None
    /\ processor.current_cmd[1].cmd_type = "DrawLine"
    /\ processor.current_cmd[1].texture_id = 2
    /\ processor.current_cmd[1].color = 5

\* C12 : an execute_cycle whose instruction has an opcode outside 0x0, 0x1,
\* 0x2, 0x3, 0x8, 0x9, 0xA, 0xB changes no general register and no status
\* flag and advances the program counter by 2; the pending render command is
\* touched by the command-buffer step only
C12_UndefinedOpcodeIsNop ==
    [][(/\ last'.op = "execute_cycle" /\ processor.running /\ ~processor.halted
        /\ OpcodeOf(FetchInstruction(processor)) \notin {0, 1, 2, 3, 8, 9, 10, 11}) =>
            /\ processor'.regs = processor.regs
            /\ processor'.sr = processor.sr
            /\ processor'.pc = processor.pc + 2
            /\ processor'.running /\ ~processor'.halted
            /\ processor'.irq_asserted = processor.irq_asserted
            /\ processor'.code_cache = processor.code_cache
            /\ LET r == processor.cmd_read_ptr
                   e == processor.cmd_buffer[r]
               IN (r = processor.cmd_write_ptr \/ Bit(e, 15) = 0) =>
                     /\ processor'.current_cmd = processor.current_cmd
                     /\ processor'.cmd_ready = processor.cmd_ready
                     /\ processor'.serial = processor.serial
      ]_vars

\* a cycle has executed 0xC125 over non-zero registers, a set status flag
\* and a pending render command, with nothing to remove from the buffer
C12_Witness ==
    /\ last.op = "execute_cycle" /\ last.instrs = 1 /\ last.units = 0
    /\ last.value = 49445
    /\ processor.regs[2] # 0 /\ processor.sr # 0
    /\ processor.cmd_ready /\ processor.current_cmd # None

\* C13 : in every processor state the next execute_cycle indexes inside its
\* arrays: the fetch index is in [0, 2048), the register indices of the
\* fetched word are in [0, 16), the buffer pointers are in [0, 128); and the
\* command-buffer step leaves a processor with an empty buffer as it is
C13_ExecuteCycleInRange ==
    LET instr == FetchInstruction(processor) IN
    /\ FetchIndex(processor) \in 0 .. CodeCacheLen - 1
    /\ instr \in 0 .. 65535
    /\ RdOf(instr) \in RegIds
    /\ RsOf(instr) \in RegIds
    /\ processor.cmd_read_ptr \in 0 .. CmdBufLen - 1
    /\ processor.cmd_write_ptr \in 0 .. CmdBufLen - 1
    /\ processor.cmd_read_ptr = processor.cmd_write_ptr =>
          ProcessCommandBuffer(processor) = processor

\* a cycle has fetched 0xFFFF at program counter 0xFFFFFFFE, with both
\* buffer pointers on the last slot, and the program counter wrapped to 0
C13_Witness ==
    /\ last.op = "execute_cycle" /\ last.instrs = 1 /\ last.units = 0
    /\ last.addr = -2 /\ last.value = 65535
    /\ processor.pc = 0
    /\ processor.cmd_read_ptr = CmdBufLen - 1
    /\ processor.cmd_write_ptr = CmdBufLen - 1

----------------------------------------------------------------------------
(* SpecMem : the host reading and writing the SVP's address space by word  *)
(* and by byte (read_word, read_byte, write_word, write_byte), with the    *)
(* bus attached or not.                                                    *)

\* working memory 0x000000, 0x000001, 0x003FFE; texture window 0x004000,
\* 0x004001, 0x01FFFE, 0x01FFFF, 0x020000, 0x023FFE; 0x024000 (no window);
\* registers 0x03000A (register 5), 0x03001F; 0x030020 (no window); ROM
\* 0x040000, 0x3FFFFE; 0x400000, 0xFFFFFF (no window); 0x01004000 and
\* 0x01024000 (bits above bit 23 set); 0xFFFFFFFE (held as -2)
MemAddrs ==
    {0, 1, 16382, 16384, 16385, 131070, 131071, 131072, 147454, 147456,
     196618, 196639, 196640, 262144, 4194302, 4194304, 16777215,
     16793600, 16924672, -2}

\* 0xABCD
MemWords == {43981}

\* 0x5A
MemBytes == {90}

\* the cells of working memory, texture memory and the register file that
\* hold a non-zero value
CellsFilled ==
    Cardinality(DOMAIN dram) + Cardinality(DOMAIN texram)
        + Cardinality({r \in RegIds : regs[r] # 0})

\* the result a read leaves in the observation: the value, or -1 where the
\* source indexes out of range and panics
ReadResult(r) == IF r = None THEN -1 ELSE r[1]

MemReadWord ==
    \E a \in MemAddrs :
        /\ last' = Obs("read_word", a, ReadResult(SvpReadWord(Cur, a)))
        /\ UNCHANGED <<processor, dma, texture_unit, renderer, dram, texram, regs,
                       enabled, running, irq_pending, bus, manager, run>>

MemReadByte ==
    \E a \in MemAddrs :
        /\ last' = Obs("read_byte", a, ReadResult(SvpReadByte(Cur, a)))
        /\ UNCHANGED <<processor, dma, texture_unit, renderer, dram, texram, regs,
                       enabled, running, irq_pending, bus, manager, run>>

\* write_word, while fewer than MaxCells cells hold a value
MemWriteWord ==
    \E a \in MemAddrs, v \in MemWords :
        /\ CellsFilled < MaxCells
        /\ Install(SvpWriteWord(Cur, a, v))
        /\ last' = Obs("write_word", a, v)
        /\ UNCHANGED run

\* write_byte, while fewer than MaxCells cells hold a value
MemWriteByte ==
    \E a \in MemAddrs, v \in MemBytes :
        /\ CellsFilled < MaxCells
        /\ Install(SvpWriteByte(Cur, a, v))
        /\ last' = Obs("write_byte", a, v)
        /\ UNCHANGED run

NextMem ==
    \/ ConnectBusOp
    \/ MemReadWord
    \/ MemReadByte
    \/ MemWriteWord
    \/ MemWriteByte

SpecMem == Init /\ [][NextMem]_vars

----------------------------------------------------------------------------
(* Claims about host accesses, checked under SpecMem *)

\* the masked address lies in none of the four windows: working memory
\* 0x000000-0x003FFF, texture memory 0x004000-0x023FFF, registers
\* 0x030000-0x03001F, ROM 0x040000-0x3FFFFF
OutsideWindows(addr) ==
    LET svp_addr == Mask(addr, 24) IN
    ~ \/ svp_addr <= 16383
      \/ svp_addr >= 16384 /\ svp_addr <= 147455
      \/ svp_addr >= 196608 /\ svp_addr <= 196639
      \/ svp_addr >= 262144 /\ svp_addr <= 4194303

\* C14 : read_word, read_byte, write_word and write_byte complete without an
\* out-of-range index for every address, even or odd (the code's read_word
\* indexes texture memory one past its end at the odd address 0x01FFFF)
C14_HostAccessTotal ==
    /\ last.op \in {"read_word", "read_byte"} => last.value # -1
    /\ last.op = "write_byte" =>
          SvpReadWord(Cur, last.addr - (last.addr % 2)) # None

\* C15 : at an address outside the four windows read_word and read_byte
\* return the fallback 0 in every state, and write_word and write_byte leave
\* the whole SVP as it was
C15_OutsideWindowsInert ==
    [][/\ (last'.op \in {"read_word", "read_byte"} /\ OutsideWindows(last'.addr)) =>
            last'.value = 0
       /\ (last'.op \in {"write_word", "write_byte"} /\ OutsideWindows(last'.addr)) =>
            UNCHANGED <<processor, dma, texture_unit, renderer, dram, texram, regs,
                        enabled, running, irq_pending, bus, manager>>
      ]_vars

\* a word was read at 0xFFFFFF, outside the windows, while working memory,
\* the last register and the bus were all set up
C15_Witness ==
    /\ last.op = "read_word" /\ last.addr = 16777215 /\ last.value = 0
    /\ regs[15] # 0 /\ DOMAIN dram # {} /\ bus

\* C16 : for every even address A of the window 0x004000-0x023FFF,
\* write_word(A, v) stores the low byte of v at texture-memory offset
\* A - 0x004000 and the high byte at the next offset, and read_word(A) then
\* returns v (the code indexes texture memory with A itself, so the offsets
\* differ and the addresses from 0x020000 up reach no byte at all)
C16_TextureWindowRoundTrip ==
    (/\ last.op = "write_word"
     /\ Mask(last.addr, 24) >= 16384 /\ Mask(last.addr, 24) <= 147455
     /\ last.addr % 2 = 0) =>
        /\ SvpReadWord(Cur, last.addr) = Some(last.value)
        /\ Rd(texram, Mask(last.addr, 24) - 16384) = Lo(last.value)
        /\ Rd(texram, Mask(last.addr, 24) - 16384 + 1) = Hi(last.value)

----------------------------------------------------------------------------
(* Claims about snapshots *)

\* C17 : for every reachable state, load_state(save_state(s)) on a fresh
\* instance returns true and gives the registers, the working memory and the
\* DMA state of s (checked under Spec; the snapshot holds no DMA state, so a
\* fresh instance keeps a fresh DMA controller)
C17_SaveLoadRoundTrip ==
    LET data == SaveState(Cur)
        fresh == LoadState(SvpNew, data)
    IN /\ LoadStateReturns(SvpNew, data)
       /\ fresh.regs = regs
       /\ fresh.dram = dram
       /\ fresh.dma = dma

\* C18 : load_state with a buffer shorter than a snapshot returns false and
\* leaves every field of the SVP as it was (checked under SpecCtl)
C18_ShortSnapshotRejected ==
    [][(last'.op = "load_state" /\ last'.value < SnapshotLen) =>
            /\ last'.addr = 0
            /\ UNCHANGED <<processor, dma, texture_unit, renderer, dram, texram,
                           regs, enabled, running, irq_pending, bus, manager>>
      ]_vars

\* a buffer one byte short, holding other flags than the SVP's, was refused
\* by an SVP with working memory and registers filled in
C18_Witness ==
    /\ last.op = "load_state" /\ last.value = SnapshotLen - 1 /\ last.addr = 0
    /\ running /\ enabled
    /\ DOMAIN dram # {} /\ regs[5] # 0

\* C19 : save_state returns 16419 bytes: the enabled, running and
\* irq_pending flags as 0 or 1, the 16 registers low byte first, the 8192
\* working-memory words low byte first; and it leaves the SVP as it was
\* (checked under SpecCtl)
C19_SnapshotLayout ==
    [][last'.op = "save_state" =>
            /\ UNCHANGED <<processor, dma, texture_unit, renderer, dram, texram,
                           regs, enabled, running, irq_pending, bus, manager>>
            /\ LET data == SaveState(Cur) IN
                 /\ data.len = 16419 /\ last'.value = 16419
                 /\ DOMAIN data.bytes \subseteq 0 .. 16418
                 /\ Rd(data.bytes, 0) = (IF enabled THEN 1 ELSE 0)
                 /\ Rd(data.bytes, 1) = (IF running THEN 1 ELSE 0)
                 /\ Rd(data.bytes, 2) = (IF irq_pending THEN 1 ELSE 0)
                 /\ \A r \in RegIds :
                       /\ Rd(data.bytes, 3 + 2 * r) = regs[r] % 256
                       /\ Rd(data.bytes, 4 + 2 * r) = regs[r] \div 256
                 /\ \A i \in DOMAIN dram \cup {0, 1, DramLen - 1} :
                       /\ Rd(data.bytes, 35 + 2 * i) = Rd(dram, i) % 256
                       /\ Rd(data.bytes, 36 + 2 * i) = Rd(dram, i) \div 256
                 /\ \A o \in DOMAIN data.bytes :
                       o >= 35 => (o - 35) \div 2 \in DOMAIN dram
      ]_vars

\* a snapshot was taken of an enabled, running SVP whose first and last
\* working-memory words and register 5 hold values with two distinct bytes
C19_Witness ==
    /\ last.op = "save_state" /\ last.value = 16419
    /\ enabled /\ running
    /\ Rd(dram, 0) = 4660 /\ Rd(dram, DramLen - 1) = 48879
    /\ regs[5] = 43981

----------------------------------------------------------------------------
(* Claims about reset *)

\* C20 : after reset() every working-memory word, every texture-memory byte
\* and every register is zero, the DMA controller is inactive with zero
\* addresses and zero length, the processor is stopped at program counter 0
\* with an empty command buffer, and no render command is pending
\* (checked under Spec)
C20_ResetClearsAll ==
    last.op = "reset" =>
        /\ dram = EmptyMem
        /\ texram = EmptyMem
        /\ \A r \in RegIds : regs[r] = 0
        /\ ~dma.active
        /\ dma.src_addr = 0 /\ dma.dst_addr = 0 /\ dma.length = 0
        /\ ~processor.running
        /\ processor.pc = 0
        /\ processor.cmd_read_ptr = processor.cmd_write_ptr
        /\ \A i \in 0 .. CmdBufLen - 1 : processor.cmd_buffer[i] = 0
        /\ ~processor.cmd_ready
        /\ processor.current_cmd = None

\* a reset found the processor running, the DMA controller active and
\* non-zero cells in working memory, texture memory and the registers
C20_Witness ==
    /\ last.op = "reset"
    /\ last.was_running
    /\ last.value = 1
    /\ last.addr = 3
    /\ dram = EmptyMem /\ texram = EmptyMem /\ ~dma.active /\ processor.pc = 0

----------------------------------------------------------------------------
(* SpecBind : the texture unit driven through connect_texram and           *)
(* bind_texture.  Fresh ids are bound in ascending order 0, 1, 2, ...; the *)
(* cache counts one miss per fresh id, so the next fresh id is miss_count. *)

\* texture memory contents: all zero; and one with the first pixel of
\* texture 0, the second pixel of texture 1 and the last pixel of texture 15
BindTexrams ==
    {EmptyMem,
     Wr(Wr(Wr(Wr(Wr(Wr(EmptyMem, 0, 52), 1, 18), 8194, 205), 8195, 171),
           131070, 239), 131071, 190)}

\* ids bind_texture rejects
BindBadIds == {16, 17, 255}

\* ids that are bound a second time
BindAgainIds == {0, 1}

\* what bind_texture returns
BindTextureReturns(tu, texture_id) == texture_id < 16

OnlyTextureUnit == UNCHANGED <<processor, dma, renderer, dram, texram, regs,
                               enabled, running, irq_pending, bus, manager, run>>

InitBind ==
    /\ \E tx \in BindTexrams : InitFrom([SvpNew EXCEPT !.texram = tx])
    /\ last = NewObs
    /\ run = NoRun(FALSE)

\* connect_texram on a unit that is not connected yet
BindConnectTexram ==
    /\ ~texture_unit.texram
    /\ texture_unit' = ConnectTexram(texture_unit)
    /\ last' = Obs("connect_texram", 0, 0)
    /\ OnlyTextureUnit

\* bind_texture(id); the observation holds what the call returned (addr: 1
\* for true, 0 for false) and the id (value)
BindId(id) ==
    /\ texture_unit' = BindTexture(texture_unit, id, texram)
    /\ last' = Obs("bind_texture",
                   IF BindTextureReturns(texture_unit, id) THEN 1 ELSE 0, id)
    /\ OnlyTextureUnit

\* bind_texture of the next id not bound so far: 0, 1, ..., 15, then 16
BindInSequence ==
    /\ texture_unit.cache.miss_count <= 16
    /\ BindId(texture_unit.cache.miss_count)

\* bind_texture of an id that is cached, at most MaxBinds times
BindAgain ==
    \E id \in BindAgainIds :
        /\ CacheHas(texture_unit.cache, id)
        /\ texture_unit.cache.hit_count < MaxBinds
        /\ BindId(id)

\* bind_texture of an id beyond the 16 slots
BindOutOfRange ==
    \E id \in BindBadIds : BindId(id)

NextBind ==
    \/ BindConnectTexram
    \/ BindInSequence
    \/ BindAgain
    \/ BindOutOfRange

SpecBind == InitBind /\ [][NextBind]_vars

----------------------------------------------------------------------------
(* Claims about the texture unit *)

\* the ids of the textures the cache holds
CachedIds(c) ==
    {c.textures[i][1].id : i \in {j \in TextureIds : c.textures[j] # None}}

\* C21 : after 17 distinct ids were bound one after another from an empty
\* cache (16 misses, no hit, then the 17th id), the cache holds exactly 16
\* textures, the 17th id among them and the least recently bound of the
\* first 16 (id 0) no longer (checked under SpecBind; bind_texture refuses
\* every id above 15 and the cache never evicts)
C21_SeventeenthBindEvictsOldest ==
    (/\ last.op = "bind_texture" /\ last.value = 16
     /\ texture_unit.texram
     /\ texture_unit.cache.hit_count = 0
     /\ texture_unit.cache.miss_count = 16
     /\ texture_unit.cache.lru_counter = 16) =>
        /\ Cardinality({i \in TextureIds : texture_unit.cache.textures[i] # None}) = 16
        /\ 16 \in CachedIds(texture_unit.cache)
        /\ 0 \notin CachedIds(texture_unit.cache)

\* C22 : bind_texture(id) with id in 0..15 makes id the active texture and,
\* when id was not cached, leaves the cache holding a 64x64 direct-colour
\* texture for id whose pixel i is the little-endian word of texture memory
\* at id * 0x2000 + 2i; with id >= 16 it returns false and changes neither
\* the active id nor the cache (checked under SpecBind; a unit whose texture
\* memory was never connected binds without loading)
C22_BindLoadsTexture ==
    [][last'.op = "bind_texture" =>
          IF last'.value < 16
          THEN /\ texture_unit'.current_texture = Some(last'.value)
               /\ ~CacheHas(texture_unit.cache, last'.value) =>
                    /\ texture_unit'.cache.textures[last'.value] # None
                    /\ LET t == texture_unit'.cache.textures[last'.value][1]
                           base == last'.value * 8192
                       IN /\ t.id = last'.value
                          /\ t.width = 64 /\ t.height = 64
                          /\ t.format = "RGB555"
                          /\ \A i \in 0 .. 4095 :
                                Rd(t.data, i) = Word(Rd(texram, base + 2 * i),
                                                     Rd(texram, base + 2 * i + 1))
          ELSE /\ last'.addr = 0
               /\ UNCHANGED texture_unit
      ]_vars

----------------------------------------------------------------------------
(* Claims about the ranges of the DMA fields *)

\* C28 : in every reachable state of the DMA controller the source and the
\* destination address are below 2^24 and the length is below 2^15, also
\* after transfer cycles have advanced the addresses (checked under
\* SpecDma; transfer_cycle advances with wrapping_add(2) on the full u32)
C28_DmaFieldsInRange ==
    /\ dma.src_addr >= 0 /\ dma.src_addr < Pow2(24)
    /\ dma.dst_addr >= 0 /\ dma.dst_addr < Pow2(24)
    /\ dma.length >= 0 /\ dma.length < Pow2(15)

----------------------------------------------------------------------------
(* SpecProg : execute_cycle over short programs in the code cache: a CALL  *)
(* through r3 at the program counter, one instruction at the word after    *)
(* the call target, a RET after it, and an ADD after the call site.        *)

\* 0, 0x000FFE (last code-cache word), 0xFFFFFE, 0xFFFFFFFE (held as -2)
ProgPcs == {0, 4094, 16777214, -2}

\* call targets in r3: 0x20, 0x40, 0x01000FFE (above 24 bits)
ProgTargets == {32, 64, 16781310}

\* the instruction after the call target: 0xA000 RET, 0x0F40 MOV r15 <- r4,
\* 0x1F03 ADD r15 <- r0 + 3, 0x1134 ADD r1 <- r3 + 0x34, 0x9030 CALL r3,
\* 0x90F0 CALL r15, 0x8050 JMP r5, 0x0000 MOV r0 <- r0
ProgBodies == {40960, 3904, 7939, 4404, 36912, 37104, 32848, 0}

\* the index of the code-cache word an address is fetched from
CacheIndex(addr) == (addr \div 2) % CodeCacheLen

\* a started processor with the program in its code cache; r3 holds the
\* call target, r4 = 0x60, r5 = the call target + 2
ProgState(pc, target, body) ==
    LET p0 == [ProcessorStart(ProcessorNew) EXCEPT
                  !.pc = pc,
                  !.regs = [r \in RegIds |-> CASE r = 3 -> target [] r = 4 -> 96
                                                [] r = 5 -> target + 2 [] OTHER -> 0]]
        t == target % 16777216
        c1 == Wr(p0.code_cache, CacheIndex(pc + 2), 4404)
        c2 == Wr(c1, CacheIndex(t + 4), 40960)
        c3 == Wr(c2, CacheIndex(t + 2), body)
        c4 == Wr(c3, CacheIndex(pc), 36912)
    IN [p0 EXCEPT !.code_cache = c4]

\* no call seen yet
NoCall == [call |-> None]

\* the call site R15 still holds after the instruction instr fetched at pc:
\* a CALL records its own address, a MOV, ADD or SUB into R15 forgets it
CallSiteAfter(seen, pc, instr) ==
    IF OpcodeOf(instr) = 9 THEN [call |-> Some(pc)]
    ELSE IF OpcodeOf(instr) \in {0, 1, 2} /\ RdOf(instr) = 15 THEN NoCall
    ELSE seen

InitProg ==
    /\ \E pc \in ProgPcs, target \in ProgTargets, body \in ProgBodies :
          InitFrom([SvpNew EXCEPT !.processor = ProgState(pc, target, body)])
    /\ last = NewObs
    /\ run = NoCall

\* execute_cycle, at most MaxCycles + 1 times; the observation holds the
\* program counter before the cycle (addr) and the word fetched (value)
ProgCycle ==
    /\ processor.icount < MaxCycles + 1
    /\ processor' = ExecuteCycle(processor)
    /\ last' = Obs("execute_cycle", processor.pc, FetchInstruction(processor))
    /\ run' = CallSiteAfter(run, processor.pc, FetchInstruction(processor))
    /\ UNCHANGED <<dma, texture_unit, renderer, dram, texram, regs, enabled,
                   running, irq_pending, bus, manager>>

NextProg == ProgCycle

SpecProg == InitProg /\ [][NextProg]_vars

----------------------------------------------------------------------------
(* Claims about jumps, calls and returns *)

\* C29 : when a RET is executed and R15 has not been written since the last
\* CALL, executed at address P, the program counter after the cycle is P + 2,
\* so the next instruction fetched is the one after the call
C29_ReturnResumesAfterCall ==
    [][(/\ last'.op = "execute_cycle"
        /\ OpcodeOf(last'.value) = 10
        /\ run.call # None) =>
            /\ processor'.pc = run.call[1] + 2
            /\ FetchIndex(processor') = CacheIndex(run.call[1] + 2)]_vars

\* a RET has just returned to the word after a call site that is not the
\* RET's own address
C29_Witness ==
    /\ last.op = "execute_cycle"
    /\ OpcodeOf(last.value) = 10
    /\ run.call # None
    /\ processor.pc = run.call[1] + 2
    /\ last.addr # run.call[1] + 2

----------------------------------------------------------------------------
(* SpecRender : the renderer driven through its own interface, with the    *)
(* Z-buffer switches and FrameBuffer::draw_pixel of its parts.             *)

\* operations on the renderer in one behaviour
MaxDraws == 2

\* the vertex at (x, y, z) tenths with w = 1.0 and u = v = 0.0
WorldVertex(x, y, z) ==
    Vertex(FDiv(FromInt(x), FromInt(10)), FDiv(FromInt(y), FromInt(10)),
           FDiv(FromInt(z), FromInt(10)), FOne)

\* triangles, all seen at the same place near the middle of the screen:
\* 1 faces the camera 10 units away; 2 and 3 are 1 with the winding reversed
\* (last two vertices exchanged, all three reversed); 4 has the footprint
\* of 1, 20 units away; 5 is nearer (5 units) and wider; 6 has the footprint
\* of 1 beyond the far plane, 2000 units away; 7 is behind the camera; 8 has
\* its vertices on one line; 9 has the footprint of 1 and slopes away from
\* the camera; 10 has two vertices only
RenderPolygons ==
    <<[vertices |-> <<WorldVertex(0, 0, -100), WorldVertex(0, 2, -100),
                      WorldVertex(2, 0, -100)>>, color |-> 31],
      [vertices |-> <<WorldVertex(0, 0, -100), WorldVertex(2, 0, -100),
                      WorldVertex(0, 2, -100)>>, color |-> 31],
      [vertices |-> <<WorldVertex(2, 0, -100), WorldVertex(0, 2, -100),
                      WorldVertex(0, 0, -100)>>, color |-> 31],
      [vertices |-> <<WorldVertex(0, 0, -200), WorldVertex(0, 4, -200),
                      WorldVertex(4, 0, -200)>>, color |-> 992],
      [vertices |-> <<WorldVertex(0, 0, -50), WorldVertex(0, 1, -50),
                      WorldVertex(2, 0, -50)>>, color |-> 32767],
      [vertices |-> <<WorldVertex(0, 0, -20000), WorldVertex(0, 400, -20000),
                      WorldVertex(400, 0, -20000)>>, color |-> 1023],
      [vertices |-> <<WorldVertex(0, 0, 100), WorldVertex(0, 2, 100),
                      WorldVertex(2, 0, 100)>>, color |-> 31775],
      [vertices |-> <<WorldVertex(0, 0, -100), WorldVertex(1, 1, -100),
                      WorldVertex(2, 2, -100)>>, color |-> 31],
      [vertices |-> <<WorldVertex(0, 0, -100), WorldVertex(0, 4, -200),
                      WorldVertex(2, 0, -100)>>, color |-> 32736],
      [vertices |-> <<WorldVertex(0, 0, -100), WorldVertex(0, 2, -100)>>,
       color |-> 31]>>

\* lines: 1 runs along the lower edge of triangle 1 at its depth; 2 is the
\* line the facade draws, both ends at the origin; 3 is 1 in another colour
RenderLines ==
    <<[v1 |-> WorldVertex(0, 0, -100), v2 |-> WorldVertex(2, 0, -100),
       color |-> 21140],
      [v1 |-> WorldVertex(0, 0, 0), v2 |-> WorldVertex(0, 0, 0),
       color |-> 5],
      [v1 |-> WorldVertex(0, 0, -100), v2 |-> WorldVertex(2, 0, -100),
       color |-> 992]>>

\* pixels for FrameBuffer::draw_pixel: inside triangle 1, the last pixel,
\* one column and one row outside
RenderPixels == {<<161, 111>>, <<319, 223>>, <<320, 0>>, <<0, 224>>}

\* texture units handed to draw_polygon: nothing bound; texture 3 bound but
\* not loaded; texture 0 loaded with first pixel 0x1234
RenderTextureUnits ==
    {TextureUnitNew,
     BindTexture(TextureUnitNew, 3, EmptyMem),
     BindTexture(ConnectTexram(TextureUnitNew), 0, Wr(Wr(EmptyMem, 0, 52), 1, 18))}

\* draw_polygon and draw_line on the inputs up to the buffers; nothing here
\* changes the camera or the viewport, so this part of a call is the same
\* in every state
RECURSIVE PreparedPolygons(_)
PreparedPolygons(k) ==
    IF k = 0
    THEN << >>
    ELSE Append(PreparedPolygons(k - 1), PreparePolygon(RendererNew, RenderPolygons[k].vertices))

RenderPrepared == PreparedPolygons(Len(RenderPolygons))

RECURSIVE PreparedLines(_)
PreparedLines(k) ==
    IF k = 0
    THEN << >>
    ELSE Append(PreparedLines(k - 1),
                PrepareLine(RendererNew, RenderLines[k].v1, RenderLines[k].v2))

RenderPreparedLines == PreparedLines(Len(RenderLines))

\* the writes draw_polygon attempts: Z-buffer index, depth and colour of
\* each pixel
PolygonAttempts(r, polygon, tu, texture_id, color) ==
    {<<polygon.fragments[k].y * r.zbuffer.width + polygon.fragments[k].x,
       polygon.fragments[k].depth,
       PixelColor(r, polygon.fragments[k].inv_w, tu, texture_id, color)>> :
        k \in {j \in 1 .. Len(polygon.fragments) :
                  OnScreen(r, polygon.fragments[j].x, polygon.fragments[j].y)}}

\* the writes draw_line attempts
LineAttempts(r, fragments, color) ==
    {<<fragments[k].y * r.zbuffer.width + fragments[k].x, fragments[k].depth, color>> :
        k \in {j \in 1 .. Len(fragments) : OnScreen(r, fragments[j].x, fragments[j].y)}}

\* renderers to start from: a new one, and one that has drawn line 1 and
\* put it on display
RenderStarts ==
    {RendererNew,
     RendererSwapBuffers(DrawPreparedLine(RendererNew, RenderPreparedLines[1],
                                          RenderLines[1].color))}

OnlyRenderer == UNCHANGED <<processor, dma, texture_unit, dram, texram, regs,
                            enabled, running, irq_pending, bus, manager>>

\* the number of operations done so far, and the one before the last
Draws(n, before) == [ops |-> n, before |-> before]

InitRender ==
    /\ \E tu \in RenderTextureUnits, r \in RenderStarts :
           InitFrom([SvpNew EXCEPT !.texture_unit = tu, !.renderer = r])
    /\ last = NewObs
    /\ run = Draws(0, "new")

\* one more operation, observed as op on input addr; written holds the
\* writes the operation attempts, value the front buffer before it
RenderStep(op, addr, attempts) ==
    /\ run' = Draws(run.ops + 1, last.op)
    /\ last' = [Obs(op, addr, GetFrameBuffer(renderer)) EXCEPT !.written = attempts]
    /\ OnlyRenderer

RenderClear ==
    /\ run.ops < MaxDraws
    /\ renderer' = RendererClear(renderer)
    /\ RenderStep("clear", 0, {})

RenderDrawPolygon ==
    \E k \in 1 .. Len(RenderPolygons) :
        /\ run.ops < MaxDraws
        /\ renderer' = DrawPrepared(renderer, RenderPrepared[k], texture_unit,
                                    0, RenderPolygons[k].color)
        /\ RenderStep("draw_polygon", k,
                      PolygonAttempts(renderer, RenderPrepared[k], texture_unit,
                                      0, RenderPolygons[k].color))

RenderDrawLine ==
    \E k \in 1 .. Len(RenderLines) :
        /\ run.ops < MaxDraws
        /\ renderer' = DrawPreparedLine(renderer, RenderPreparedLines[k],
                                        RenderLines[k].color)
        /\ RenderStep("draw_line", k,
                      LineAttempts(renderer, RenderPreparedLines[k], RenderLines[k].color))

\* FrameBuffer::draw_pixel on the renderer's framebuffer
RenderDrawPixel ==
    \E p \in RenderPixels :
        /\ run.ops < MaxDraws
        /\ renderer' = [renderer EXCEPT
                           !.framebuffer = DrawPixel(renderer.framebuffer, p[1], p[2], 21845)]
        /\ RenderStep("draw_pixel", p[2] * FbWidth + p[1], {})

RenderSwapBuffers ==
    /\ run.ops < MaxDraws
    /\ renderer' = RendererSwapBuffers(renderer)
    /\ RenderStep("swap_buffers", 0, {})

\* set_render_mode, between Textured and Solid
RenderSetRenderMode ==
    /\ run.ops < MaxDraws
    /\ renderer' = SetRenderMode(renderer, IF renderer.render_mode = "Textured"
                                           THEN "Solid" ELSE "Textured")
    /\ RenderStep("set_render_mode", 0, {})

\* ZBuffer::set_write_enabled
RenderSetWriteEnabled ==
    /\ run.ops < MaxDraws
    /\ renderer' = [renderer EXCEPT !.zbuffer.write_enabled = ~renderer.zbuffer.write_enabled]
    /\ RenderStep("set_write_enabled", 0, {})

\* ZBuffer::set_test_enabled
RenderSetTestEnabled ==
    /\ run.ops < MaxDraws
    /\ renderer' = [renderer EXCEPT !.zbuffer.test_enabled = ~renderer.zbuffer.test_enabled]
    /\ RenderStep("set_test_enabled", 0, {})

NextRender ==
    \/ RenderClear
    \/ RenderDrawPolygon
    \/ RenderDrawLine
    \/ RenderDrawPixel
    \/ RenderSwapBuffers
    \/ RenderSetRenderMode
    \/ RenderSetWriteEnabled
    \/ RenderSetTestEnabled

SpecRender == InitRender /\ [][NextRender]_vars

\* the depth test is in force
DepthTested(r) == r.zbuffer.enabled /\ r.zbuffer.test_enabled

\* the pixel of the back buffer at index i
BackPixel(r, i) == Rd(GetBackBuffer(r.framebuffer), i)

\* C23: after clear(), with the depth test and depth writes on, every pixel
\* the next draw_polygon or draw_line attempts passes the depth test: its
\* depth is stored in the Z-buffer and its colour in the back buffer.
C23_FirstWriteAfterClearPasses ==
    [][(/\ last.op = "clear"
        /\ last'.op \in {"draw_polygon", "draw_line"}
        /\ DepthTested(renderer)
        /\ renderer.zbuffer.write_enabled)
       => \A a \in last'.written :
              /\ ZData(renderer'.zbuffer, a[1]) = a[2]
              /\ BackPixel(renderer', a[1]) = a[3]]_vars

\* C24: with depth testing enabled, a pixel a draw attempts at depth d passes
\* exactly when d is strictly less than the depth stored for it: then the
\* back buffer takes its colour and the stored depth becomes d if depth
\* writing is enabled and stays otherwise; when it fails, the stored depth
\* and the pixel stay as they were.
C24_DepthTestStrict ==
    [][(last'.op \in {"draw_polygon", "draw_line"} /\ DepthTested(renderer))
       => \A a \in last'.written :
              IF a[2] < ZData(renderer.zbuffer, a[1])
              THEN /\ BackPixel(renderer', a[1]) = a[3]
                   /\ ZData(renderer'.zbuffer, a[1]) =
                          (IF renderer.zbuffer.write_enabled
                           THEN a[2]
                           ELSE ZData(renderer.zbuffer, a[1]))
              ELSE /\ ZData(renderer'.zbuffer, a[1]) = ZData(renderer.zbuffer, a[1])
                   /\ BackPixel(renderer', a[1]) = BackPixel(renderer, a[1])]_vars

\* line 3 was drawn over line 1: its pixels came at the depths stored by
\* line 1 and the pixels kept the colour of line 1
C24_Witness ==
    /\ last.op = "draw_line"
    /\ last.addr = 3
    /\ DepthTested(renderer)
    /\ last.written # {}
    /\ \A a \in last.written :
           /\ ZData(renderer.zbuffer, a[1]) = a[2]
           /\ BackPixel(renderer, a[1]) = RenderLines[1].color

\* C25: draw_polygon, draw_line, draw_pixel and clear leave the front
\* buffer that get_frame_buffer returns as it was; swap_buffers makes the
\* back buffer the front buffer and the front buffer the back buffer, and a
\* second swap_buffers right after it brings back the front buffer there
\* was before the first.
C25_DrawsLeaveFrontBuffer ==
    [][/\ last'.op \in {"draw_polygon", "draw_line", "draw_pixel", "clear"}
          => GetFrameBuffer(renderer') = GetFrameBuffer(renderer)
       /\ last'.op = "swap_buffers"
          => /\ GetFrameBuffer(renderer') = GetBackBuffer(renderer.framebuffer)
             /\ GetBackBuffer(renderer'.framebuffer) = GetFrameBuffer(renderer)
       /\ (last.op = "swap_buffers" /\ last'.op = "swap_buffers")
          => GetFrameBuffer(renderer') = last.value]_vars

\* two swaps in a row, of a front buffer with line 1 and a back buffer
\* without it
C25_Witness ==
    /\ last.op = "swap_buffers"
    /\ run.before = "swap_buffers"
    /\ Rd(GetFrameBuffer(renderer), 36000) = RenderLines[1].color
    /\ BackPixel(renderer, 36000) = 0

\* the inputs that are a triangle draw_polygon renders with its winding
\* reversed (2 and 3 are 1 reversed), and the triangles without area (8)
ReversedPolygons == {k \in {2, 3} : RenderPrepared[1].drawn}

ZeroAreaPolygons == {8}

\* C26: draw_polygon on a rendered triangle with its winding reversed, or on
\* a triangle without area, writes no pixel of the framebuffer and no entry
\* of the Z-buffer.
C26_ReversedAndZeroAreaNotDrawn ==
    [][(last'.op = "draw_polygon" /\ last'.addr \in ReversedPolygons \cup ZeroAreaPolygons)
       => /\ renderer'.framebuffer = renderer.framebuffer
          /\ renderer'.zbuffer = renderer.zbuffer]_vars

----------------------------------------------------------------------------
(* The SVP driven by its host with render triggers of every kind in the    *)
(* command window.                                                          *)

\* register 0: run; command window word 0x100: 0x8125 DrawLine in colour 5,
\* 0x8200 ClearFrame, 0x8300 and 0x8F9F with subtypes 3 and 15
CmdWords == {<<196608, 1>>, <<512, 33061>>, <<512, 33280>>, <<512, 33536>>, <<512, 36767>>}

CmdWriteWord == WriteWordFrom(CmdWords)

NextCmd ==
    \/ SetEnabledOp
    \/ ConnectBusOp
    \/ BindTextureOp
    \/ Tick
    \/ CmdWriteWord

SpecCmd == Init /\ [][NextCmd]_vars

\* the word process_command_buffer reads next
NextCommandWord(p) == p.cmd_buffer[p.cmd_read_ptr]

\* the word process_command_buffer read last
LastCommandWord(p) == p.cmd_buffer[(p.cmd_read_ptr + CmdBufLen - 1) % CmdBufLen]

\* w is a render trigger whose subtype (bits 8-11) is not 0, 1 or 2
UnknownTrigger(w) == Bit(w, 15) = 1 /\ (w \div 256) % 16 \notin {0, 1, 2}

\* C27: a tick that takes a render trigger with a subtype other than 0, 1
\* and 2 from the command buffer makes a command of type Unknown of it and
\* hands it over; the framebuffer, the Z-buffer and the texture cache stay
\* as they were and the ready flag is clear afterwards.
C27_UnknownCommandIgnored ==
    [][(/\ last'.op = "tick"
        /\ enabled /\ running
        /\ processor.running /\ ~processor.halted
        /\ processor.cmd_read_ptr # processor.cmd_write_ptr
        /\ UnknownTrigger(NextCommandWord(processor)))
       => /\ TakenCommand(ExecuteCycle(processor)) # None
          /\ TakenCommand(ExecuteCycle(processor))[1].cmd_type = "Unknown"
          /\ last'.handed = 1
          /\ renderer'.framebuffer = renderer.framebuffer
          /\ renderer'.zbuffer = renderer.zbuffer
          /\ texture_unit'.cache = texture_unit.cache
          /\ ~processor'.cmd_ready]_vars

\* a tick has taken a trigger of unknown subtype while the line of an
\* earlier DrawLine command is in the back buffer
C27_Witness ==
    /\ last.op = "tick"
    /\ last.handed = 1
    /\ UnknownTrigger(LastCommandWord(processor))
    /\ BackPixel(renderer, 36000) = 5
    /\ ZData(renderer.zbuffer, 36000) = 0

----------------------------------------------------------------------------
(* svp/texture.rs : Texture::sample_bilinear and the coordinate wrapping   *)
(* behind it.                                                              *)

\* a % b as the remainder of i32 does it (the sign follows a)
Rem(a, b) == a - b * Quot(a, b)

\* the three arms of the match in wrap_coordinate, for a wrap mode
WrapBy(mode, coord, max_i) ==
    CASE mode = "Repeat" -> Rem(Rem(coord, max_i) + max_i, max_i)
      [] mode = "Clamp" -> Max2(0, Min2(coord, max_i - 1))
      [] mode = "Mirror" ->
            LET period == max_i * 2
                pos == Rem(Rem(coord, period) + period, period)
            IN IF pos < max_i THEN pos ELSE period - pos - 1

\* Texture::wrap_coordinate : the mode matched on is self.wrap_u, whatever
\* the axis; the result is cast to u16
WrapCoordinate(t, coord, max) == WrapBy(t.wrap_u, coord, max) % 65536

\* Texture::get_pixel
GetPixel(t, x, y) ==
    LET idx == y * t.width + x IN
    IF idx < t.width * t.height THEN Rd(t.data, idx) ELSE 0

\* Texture::get_pixel_wrapped : the wrapped coordinates and the texel there
GetPixelWrapped(t, x, y) ==
    LET wrapped_x == WrapCoordinate(t, x, t.width)
        wrapped_y == WrapCoordinate(t, y, t.height)
    IN [x |-> x, y |-> y, wrapped_x |-> wrapped_x, wrapped_y |-> wrapped_y,
        pixel |-> GetPixel(t, wrapped_x, wrapped_y)]

\* f.floor() as i32
FloorToInt(f) ==
    LET n == ToInt(f) IN IF f < 0 /\ FromInt(n) # f THEN n - 1 ELSE n

\* Texture::sample_bilinear up to the four texel fetches: p00, p10, p01, p11
SampleBilinearTexels(t, u, v) ==
    LET tex_x == FSub(FMul(u, FromInt(t.width)), FHalf)
        tex_y == FSub(FMul(v, FromInt(t.height)), FHalf)
        x0 == FloorToInt(tex_x)
        y0 == FloorToInt(tex_y)
        x1 == x0 + 1
        y1 == y0 + 1
    IN <<GetPixelWrapped(t, x0, y0), GetPixelWrapped(t, x1, y0),
         GetPixelWrapped(t, x0, y1), GetPixelWrapped(t, x1, y1)>>

\* Texture::new, with the wrap modes and the filter it sets
TextureNewWrapped(id, width, height, format, base_addr) ==
    [id |-> id, width |-> width, height |-> height, format |-> format,
     data |-> EmptyMem, base_addr |-> base_addr, filter |-> "Nearest",
     wrap_u |-> "Repeat", wrap_v |-> "Repeat"]

----------------------------------------------------------------------------
(* SpecWrap : one texture, built by Texture::new, whose public wrap_u and  *)
(* wrap_v fields the caller sets and which the caller samples bilinearly.  *)
(* The texture is slot 0 of the texture unit's cache.                      *)

WrapModes == {"Repeat", "Clamp", "Mirror"}

\* texture widths and heights
WrapSizes == {1, 2, 4}

\* u and v as f32: 0.0, 0.75, 1.5, -0.25, -1.5
WrapCoords == {0, 1061158912, 1069547520, -1048576000, -1069547520}

\* texel i of the texture under test holds i + 1
WrapData(width, height) == [i \in 0 .. width * height - 1 |-> i + 1]

WrapTexture == texture_unit.cache.textures[0][1]

OnlyTexture == UNCHANGED <<processor, dma, renderer, dram, texram, regs,
                           enabled, running, irq_pending, bus, manager, run>>

InitWrap ==
    /\ \E width \in WrapSizes, height \in WrapSizes :
          InitFrom([SvpNew EXCEPT !.texture_unit.cache.textures[0] =
              Some([TextureNewWrapped(0, width, height, "RGB555", 0)
                       EXCEPT !.data = WrapData(width, height)])])
    /\ last = NewObs
    /\ run = NoRun(FALSE)

\* texture.wrap_u = mode
WrapSetU ==
    \E mode \in WrapModes :
        /\ texture_unit' = [texture_unit EXCEPT !.cache.textures[0][1].wrap_u = mode]
        /\ last' = Obs("set_wrap_u", 0, mode)
        /\ OnlyTexture

\* texture.wrap_v = mode
WrapSetV ==
    \E mode \in WrapModes :
        /\ texture_unit' = [texture_unit EXCEPT !.cache.textures[0][1].wrap_v = mode]
        /\ last' = Obs("set_wrap_v", 0, mode)
        /\ OnlyTexture

\* texture.sample_bilinear(u, v); the observation holds the four fetches
WrapSampleBilinear ==
    \E u \in WrapCoords, v \in WrapCoords :
        /\ last' = Obs("sample_bilinear", <<u, v>>,
                       SampleBilinearTexels(WrapTexture, u, v))
        /\ UNCHANGED texture_unit
        /\ OnlyTexture

NextWrap ==
    \/ WrapSetU
    \/ WrapSetV
    \/ WrapSampleBilinear

SpecWrap == InitWrap /\ [][NextWrap]_vars

\* C31: in sample_bilinear each of the four neighbouring texel coordinates
\* is wrapped per axis, x by wrap_u and y by wrap_v, and every wrapped
\* coordinate lies in [0, width) respectively [0, height).
C31_BilinearWrapsPerAxis ==
    last.op = "sample_bilinear" =>
        \A k \in 1 .. 4 :
            LET texel == last.value[k]
                t == WrapTexture
            IN /\ texel.wrapped_x = WrapBy(t.wrap_u, texel.x, t.width)
               /\ texel.wrapped_y = WrapBy(t.wrap_v, texel.y, t.height)
               /\ texel.wrapped_x \in 0 .. t.width - 1
               /\ texel.wrapped_y \in 0 .. t.height - 1

----------------------------------------------------------------------------
(* SpecChips : the chip manager driven through add_chip, remove_chip and   *)
(* set_active_chip.                                                        *)

\* chips the manager holds at most
MaxChips == 3

\* chip types create_chip builds a chip for
ChipTypes == {"SVP", "Yx5200", "ActionReplay"}

OnlyManager == UNCHANGED <<processor, dma, texture_unit, renderer, dram, texram,
                           regs, enabled, running, irq_pending, bus, run>>

InitChips ==
    /\ InitFrom(SvpNew)
    /\ last = NewObs
    /\ run = NoRun(FALSE)

\* add_chip(create_chip(chip_type, ..).unwrap())
ChipsAddChip ==
    \E chip_type \in ChipTypes :
        /\ Len(manager.chips) < MaxChips
        /\ manager' = AddChip(manager, chip_type)
        /\ last' = Obs("add_chip", 0, chip_type)
        /\ OnlyManager

\* remove_chip(chip_type); the observation holds what the call returned
ChipsRemoveChip ==
    \E chip_type \in ChipTypes :
        /\ manager' = RemoveChip(manager, chip_type)
        /\ last' = Obs("remove_chip", RemoveChipReturns(manager, chip_type), chip_type)
        /\ OnlyManager

\* set_active_chip(chip_type)
ChipsSetActiveChip ==
    \E chip_type \in ChipTypes :
        /\ manager' = SetActiveChip(manager, chip_type)
        /\ last' = Obs("set_active_chip", 0, chip_type)
        /\ OnlyManager

NextChips ==
    \/ ChipsAddChip
    \/ ChipsRemoveChip
    \/ ChipsSetActiveChip

SpecChips == InitChips /\ [][NextChips]_vars

----------------------------------------------------------------------------
(* Claims about the running flags, the render hand-over and the guard of   *)
(* tick                                                                    *)

\* C33: in every reachable state, states produced by load_state included,
\* the facade's running flag equals the processor core's running flag, and
\* a tick of an enabled SVP that reports running executes one instruction
\* (checked under SpecCtl, whose host loads snapshots)
C33_RunningFlagsAgree ==
    /\ running = processor.running
    /\ (last.op = "tick" /\ enabled /\ running) => last.instrs = 1

\* C34: between ticks no render command is ready; every command made ready
\* during a tick has been taken by the facade within that tick: none waits,
\* none was overwritten, and as many were handed over as were made ready
\* (checked under SpecCmd)
C34_NoCommandReadyBetweenTicks ==
    /\ ~RenderCommandReady(processor)
    /\ processor.current_cmd = None
    /\ processor.dropped = {}
    /\ Len(processor.delivered) = processor.serial

\* a tick has made a ClearFrame command ready, after an earlier command, and
\* handed it to the renderer
C34_Witness ==
    /\ last.op = "tick"
    /\ last.handed = 1
    /\ processor.serial = 2
    /\ LastCommandWord(processor) = 33280
    /\ ~RenderCommandReady(processor)

----------------------------------------------------------------------------
(* SpecGate : the host resets, enables, ticks, loads snapshots and writes  *)
(* the control register and the DMA start register.  The observation run   *)
(* tells whether the chip was reset at all and what has happened since    *)
(* the latest reset (or since construction): whether set_enabled(true) was *)
(* called, and whether load_state has restored a snapshot whose enabled    *)
(* byte is set.                                                            *)

\* register 0: stop, run, reset pulse, reset pulse with the run bit;
\* register 3: one unit with the start bit
GateWords == CtlWords \cup {<<196614, 32769>>}

SinceReset(seen, called, loaded) ==
    [reset_seen |-> seen, set_enabled_called |-> called, loaded_enabled |-> loaded]

InitGate ==
    /\ InitFrom(SvpNew)
    /\ last = NewObs
    /\ run = SinceReset(FALSE, FALSE, FALSE)

GateReset ==
    /\ Install(SvpReset(Cur))
    /\ last' = Obs("reset", 0, 0)
    /\ run' = SinceReset(TRUE, FALSE, FALSE)

GateSetEnabled ==
    \E b \in BOOLEAN :
        /\ Install(SetEnabled(Cur, b))
        /\ last' = Obs("set_enabled", 0, IF b THEN 1 ELSE 0)
        /\ run' = IF b THEN [run EXCEPT !.set_enabled_called = TRUE] ELSE run

\* tick(), within the bounds of Tick
GateTick ==
    /\ processor.pc < 2 * MaxCycles
    /\ dma.src_addr < 2 * MaxHostLen
    /\ \E s \in {SvpTick([Cur EXCEPT !.processor.icount = 0])} :
         /\ Install([s EXCEPT !.processor.icount = 0])
         /\ last' = [Obs("tick", 0, 0) EXCEPT
                        !.instrs = s.processor.icount,
                        !.units = dma.length - s.dma.length]
    /\ UNCHANGED run

\* write_word(addr, value); a write of register 0 with the reset bit resets
GateWriteWord ==
    \E w \in GateWords :
        /\ Install(SvpWriteWord(Cur, w[1], w[2]))
        /\ last' = Obs("write_word", w[1], w[2])
        /\ run' = IF w[1] = 196608 /\ Bit(w[2], 15) = 1
                  THEN SinceReset(TRUE, FALSE, FALSE) ELSE run

GateLoadState ==
    \E data \in Snapshots :
        /\ Install(LoadState(Cur, data))
        /\ last' = Obs("load_state", IF LoadStateReturns(Cur, data) THEN 1 ELSE 0,
                       data.len)
        /\ run' = IF LoadStateReturns(Cur, data) /\ LoadState(Cur, data).enabled
                  THEN [run EXCEPT !.loaded_enabled = TRUE] ELSE run

NextGate ==
    \/ GateReset
    \/ GateSetEnabled
    \/ GateTick
    \/ GateWriteWord
    \/ GateLoadState

SpecGate == InitGate /\ [][NextGate]_vars

\* the SVP's own state
SvpState ==
    <<processor, dma, texture_unit, renderer, dram, texram, regs, enabled,
      running, irq_pending, bus>>

\* C35 as stated: tick changes nothing while the chip is disabled or not
\* running; and after a reset (by reset() or by the reset bit of register
\* 0), no tick executes an instruction or moves a DMA unit until
\* set_enabled(true) is called, whatever is written to register 0.
C35_DisabledUntilSetEnabled ==
    [][last'.op = "tick" =>
          /\ (~enabled \/ ~running) => SvpState' = SvpState
          /\ (run.reset_seen /\ ~run.set_enabled_called)
                => (last'.instrs = 0 /\ last'.units = 0)]_vars

\* C35 as amended: the same, until set_enabled(true) is called or
\* load_state restores a snapshot whose enabled byte is non-zero.
C35_DisabledUntilEnabledOrLoaded ==
    [][last'.op = "tick" =>
          /\ (~enabled \/ ~running) => SvpState' = SvpState
          /\ (run.reset_seen /\ ~run.set_enabled_called /\ ~run.loaded_enabled)
                => (last'.instrs = 0 /\ last'.units = 0)]_vars

\* after a reset and without set_enabled(true) or a snapshot, a tick has
\* left a chip alone whose running flag is set, whose processor runs and
\* whose DMA controller is active
C35_Witness ==
    /\ last.op = "tick"
    /\ run.reset_seen /\ ~run.set_enabled_called /\ ~run.loaded_enabled
    /\ ~enabled /\ running
    /\ processor.running /\ ~processor.halted
    /\ dma.active /\ dma.length = 1
    /\ processor.pc = 0
    /\ last.instrs = 0 /\ last.units = 0

----------------------------------------------------------------------------
(* Claims about the buffers between two clears *)

\* the pixels whose stored depth differs from the fill value before or
\* after the step
TouchedDepths == DOMAIN renderer.zbuffer.data.cells \cup DOMAIN renderer'.zbuffer.data.cells

\* C36: with depth testing and depth writing enabled, no operation but
\* clear() increases the depth stored for a pixel, and draw_polygon and
\* draw_line change a pixel of the back buffer only to the colour of a
\* fragment whose depth is strictly smaller than the depth stored for that
\* pixel (checked under SpecRender)
C36_DepthNeverIncreases ==
    [][(/\ last'.op # "clear"
        /\ DepthTested(renderer)
        /\ renderer.zbuffer.write_enabled)
       => /\ renderer'.zbuffer.data.fill = renderer.zbuffer.data.fill
          /\ \A i \in TouchedDepths :
                 ZData(renderer'.zbuffer, i) <= ZData(renderer.zbuffer, i)
          /\ last'.op \in {"draw_polygon", "draw_line"} =>
                 \A i \in Diff(GetBackBuffer(renderer.framebuffer),
                               GetBackBuffer(renderer'.framebuffer)) :
                     \E a \in last'.written :
                         /\ a[1] = i
                         /\ a[2] < ZData(renderer.zbuffer, i)
                         /\ a[3] = BackPixel(renderer', i)]_vars

\* triangle 4, behind triangle 1 and wider, was drawn after an earlier
\* operation: one of its pixels was stored with its depth and colour, and
\* another met a smaller stored depth and left the pixel alone
C36_Witness ==
    /\ last.op = "draw_polygon"
    /\ last.addr = 4
    /\ run.ops = 2
    /\ DepthTested(renderer) /\ renderer.zbuffer.write_enabled
    /\ \E a \in last.written :
           ZData(renderer.zbuffer, a[1]) = a[2] /\ BackPixel(renderer, a[1]) = a[3]
    /\ \E b \in last.written :
           ZData(renderer.zbuffer, b[1]) < b[2] /\ BackPixel(renderer, b[1]) # b[3]

----------------------------------------------------------------------------
(* SpecIrq : the host of Spec, which also writes the interrupt control     *)
(* register.                                                               *)

\* register 0: run; register 3: one unit with the start bit; command window
\* word 0x100: 0x8200 ClearFrame; register 4 (0x030008) with and without
\* bit 0
IrqWords ==
    {<<196608, 1>>, <<196614, 32769>>, <<512, 33280>>, <<196616, 1>>, <<196616, 2>>}

IrqWriteWord == WriteWordFrom(IrqWords)

NextIrq ==
    \/ Reset
    \/ SetEnabledOp
    \/ Tick
    \/ IrqWriteWord

SpecIrq == Init /\ [][NextIrq]_vars

\* C37: under reset, set_enabled, tick and write_word, irq_pending() is
\* false in every reachable state and the processor never asserts its
\* interrupt; in particular irq_pending() is false after a write of
\* register 4 with bit 0 set (checked under SpecIrq)
C37_IrqNeverPending ==
    /\ ~irq_pending
    /\ ~IrqAsserted(processor)
    /\ (last.op = "write_word" /\ last.addr = 196616 /\ Bit(last.value, 0) = 1)
          => ~irq_pending

\* one tick has executed an instruction, moved the last unit of a DMA
\* transfer and handed a render command over, with register 4 written
\* before, and no interrupt is pending
C37_Witness ==
    /\ last.op = "tick"
    /\ last.instrs = 1
    /\ last.units = 1 /\ ~dma.active
    /\ last.handed = 1
    /\ regs[4] = 1
    /\ ~irq_pending

----------------------------------------------------------------------------
(* SpecLive : DMA transfers under a host that keeps calling tick().  The   *)
(* host makes the chip enabled and running by loading a snapshot, once; it *)
(* leaves the processor core stopped, so the ticks move the DMA only and   *)
(* tick() needs no bound.  Weak fairness of the tick is the host that      *)
(* keeps calling it.                                                       *)

\* register 2 (0x030004): DMA destination 0x4000; register 3 (0x030006):
\* lengths 0 .. MaxHostLen with the start bit, and length 1 without it;
\* DRAM word 0
LiveWords ==
    {<<196612, 16384>>, <<196614, 1>>, <<0, 4660>>}
    \cup {<<196614, 32768 + n>> : n \in 0 .. MaxHostLen}

\* write_word while no transfer is active and the transfers so far have
\* moved fewer than MaxHostLen units
LiveWriteWord ==
    /\ ~dma.active
    /\ dma.src_addr < 2 * MaxHostLen
    /\ WriteWordFrom(LiveWords)

\* tick()
LiveTick ==
    /\ \E s \in {SvpTick([Cur EXCEPT !.processor.icount = 0])} :
         /\ Install([s EXCEPT !.processor.icount = 0])
         /\ last' = [Obs("tick", 0, 0) EXCEPT
                        !.instrs = s.processor.icount,
                        !.units = dma.length - s.dma.length,
                        !.written = s.dma_written]
    /\ UNCHANGED run

\* load_state into a chip that is not enabled
LiveLoadState ==
    /\ ~enabled
    /\ LoadStateOp

NextLive ==
    \/ LiveLoadState
    \/ LiveWriteWord
    \/ LiveTick

SpecLive == Init /\ [][NextLive]_vars /\ WF_vars(LiveTick)

\* C38: every DMA transfer started by a write of register 3 with bit 15 set
\* completes: on an enabled, running chip whose host keeps calling tick(),
\* an active controller eventually becomes inactive.
C38_StartedTransferCompletes ==
    (enabled /\ running /\ IsActive(dma)) ~> ~IsActive(dma)

----------------------------------------------------------------------------
(* SpecCache : the host fills texture memory, connects the bus, binds      *)
(* texture 2 and resets the chip.                                          *)

\* the first two words of texture 2 (0x004000, 0x004002)
CacheWords == {<<16384, 4660>>, <<16386, 43981>>, <<16384, 0>>}

CacheWriteWord == WriteWordFrom(CacheWords)

NextCache ==
    \/ Reset
    \/ ConnectBusOp
    \/ BindTextureOp
    \/ CacheWriteWord

SpecCache == Init /\ [][NextCache]_vars

\* C39: after reset() the texture cache holds no texture and no texture is
\* bound; and a texture bound while texture memory is all zero, as a reset
\* leaves it, has all-zero pixels and none cached before
C39_ResetEmptiesTextureCache ==
    /\ last.op = "reset" =>
          /\ \A id \in TextureIds : ~CacheHas(texture_unit.cache, id)
          /\ texture_unit.current_texture = None
    /\ (last.op = "bind_texture" /\ texram = EmptyMem) =>
          \A id \in TextureIds :
              CacheHas(texture_unit.cache, id) =>
                  texture_unit.cache.textures[id][1].data = EmptyMem

----------------------------------------------------------------------------
(* SpecQueue : the host fills the command window of an enabled, running    *)
(* chip and ticks.  The chip starts right after its start, or with         *)
(* CmdBufLen - 2 words written and drained since, so that the pointers of  *)
(* the command buffer are two entries before their wrap.  The observation  *)
(* run holds the commands of the triggers written, the commands handed to  *)
(* the renderer so far, the numbers of writes and ticks, and whether a     *)
(* write has made the write pointer catch up with the read pointer.        *)

\* the n-th word the host writes into the command window: DrawLine in
\* colour n mod 16, every third word a data word (bit 15 clear)
QueueWord(n) == IF n % 3 = 0 THEN 1 ELSE 33024 + (n % 16)

\* what identifies a render command: its type, texture and colour
CommandKey(c) == <<c.cmd_type, c.texture_id, c.color>>

\* the command process_render_command builds from the word
KeyOfWord(w) == <<CmdTypeOf((w \div 256) % 16), (w \div 16) % 16, w % 16>>

\* the entries of the command buffer between the read and the write pointer
Outstanding(p) ==
    [i \in 1 .. ((p.cmd_write_ptr + CmdBufLen - p.cmd_read_ptr) % CmdBufLen) |->
        p.cmd_buffer[(p.cmd_read_ptr + i - 1) % CmdBufLen]]

IsTrigger(w) == Bit(w, 15) = 1

\* the commands of the render triggers that wait in the command buffer
WaitingCommands(p) ==
    LET Waiting(w) == [i \in 1 .. Len(w) |-> KeyOfWord(w[i])]
    IN CHOOSE v \in {Waiting(w) : w \in {SelectSeq(Outstanding(p), IsTrigger)}} : TRUE

\* write_word(0x200, 1) followed by tick()
WriteAndDrain(s) == [SvpTick(SvpWriteWord(s, 512, 1)) EXCEPT !.processor.icount = 0]

\* WriteAndDrain n times over
RECURSIVE WrittenAndDrained(_, _)
WrittenAndDrained(s, n) ==
    IF n = 0 THEN s
    ELSE IF n = 1 THEN CHOOSE v \in {WriteAndDrain(x) : x \in {s}} : TRUE
    ELSE CHOOSE v \in {WrittenAndDrained(h, n - n \div 2) :
                          h \in {WrittenAndDrained(s, n \div 2)}} : TRUE

\* set_enabled(true) and write_word(0x110, 1) on a new chip
QueueStarted == SvpWriteWord(SetEnabled(SvpNew, TRUE), 196608, 1)

QueueStarts == {QueueStarted, WrittenAndDrained(QueueStarted, CmdBufLen - 2)}

NoQueueRun == [written |-> << >>, handed |-> << >>, writes |-> 0, ticks |-> 0,
               overflowed |-> FALSE]

InitQueue ==
    /\ \E s \in QueueStarts : InitFrom(s)
    /\ last = NewObs
    /\ run = NoQueueRun

\* write_word into the command window (word 0x100), fewer than
\* CmdBufLen + MaxCmds times
QueueWriteCommand ==
    /\ run.writes < CmdBufLen + MaxCmds
    /\ \E w \in {QueueWord(run.writes)} :
         /\ Install(SvpWriteWord(Cur, 512, w))
         /\ last' = Obs("write_word", 512, w)
         /\ run' = [run EXCEPT
                       !.writes = @ + 1,
                       !.written = IF IsTrigger(w) THEN Append(@, KeyOfWord(w)) ELSE @,
                       !.overflowed =
                          @ \/ (processor.cmd_write_ptr + 1) % CmdBufLen
                                   = processor.cmd_read_ptr]

\* tick(), fewer than MaxCycles times; run.handed gains the command
\* get_render_command returned to the facade within the tick
QueueTick ==
    /\ run.ticks < MaxCycles
    /\ \E s \in {SvpTick([Cur EXCEPT !.processor.icount = 0])},
          c \in {IF enabled /\ running
                 THEN TakenCommand(ExecuteCycle(processor))
                 ELSE None} :
         /\ Install([s EXCEPT !.processor.icount = 0])
         /\ last' = [Obs("tick", 0, 0) EXCEPT
                        !.instrs = s.processor.icount,
                        !.handed = Len(s.processor.delivered) - Len(processor.delivered)]
         /\ run' = [run EXCEPT
                       !.ticks = @ + 1,
                       !.handed = IF c # None THEN Append(@, CommandKey(c[1])) ELSE @]

NextQueue ==
    \/ QueueWriteCommand
    \/ QueueTick

SpecQueue == InitQueue /\ [][NextQueue]_vars

\* the render triggers written so far are the commands handed over so far
\* followed by the triggers that wait in the command buffer, in write order
WrittenIsHandedThenWaiting ==
    run.written = run.handed \o WaitingCommands(processor)

====
